---------------------------- MODULE Spec2Model ----------------------------
(***************************************************************************)
(* A model of src/src/processors/adaptive_anonymizer.py: the three-tier    *)
(* PII detector (static regex rules, Presidio, simulated LLM validation),  *)
(* its overlap resolver, the text/transaction anonymizer and the learned-  *)
(* pattern store.                                                          *)
(*                                                                         *)
(* Texts are sequences of one-character strings, offsets are 0-based as in *)
(* Python, and confidences are integers in hundredths (0.85 is 85), so the *)
(* arithmetic of the scorer is exact.  An aggregate confidence (a mean) is *)
(* kept as the pair [sum, n] and compared with a threshold by cross-       *)
(* multiplication.                                                         *)
(***************************************************************************)
EXTENDS Integers, Sequences, FiniteSets, TLC

(***************************************************************************)
(* Characters and Python string primitives                                 *)
(***************************************************************************)
LowerLetters == <<"a","b","c","d","e","f","g","h","i","j","k","l","m",
                  "n","o","p","q","r","s","t","u","v","w","x","y","z">>

UpperLetters == <<"A","B","C","D","E","F","G","H","I","J","K","L","M",
                  "N","O","P","Q","R","S","T","U","V","W","X","Y","Z">>

DigitChars == <<"0","1","2","3","4","5","6","7","8","9">>

Range(s) == {s[i] : i \in 1..Len(s)}

IndexOf(s, c) == CHOOSE i \in 1..Len(s) : s[i] = c

\* A decimal digit: what \d matches in the texts of the model and what
\* int() converts
isdigit(c) == c \in Range(DigitChars)

\* A character that str.isdigit() accepts and int() does not: SUPERSCRIPT
\* TWO (U+00B2), written "^2"
OtherDigits == <<"^2">>

\* str.isdigit() of one character
str_isdigit(c) == isdigit(c) \/ c \in Range(OtherDigits)

isupper(c) == c \in Range(UpperLetters)

islower(c) == c \in Range(LowerLetters)

int(c) == IndexOf(DigitChars, c) - 1

lower_char(c) == IF isupper(c) THEN LowerLetters[IndexOf(UpperLetters, c)] ELSE c

upper_char(c) == IF islower(c) THEN UpperLetters[IndexOf(LowerLetters, c)] ELSE c

\* str.lower()
lower(s) == [i \in 1..Len(s) |-> lower_char(s[i])]

\* s[a:b] for 0 <= a, with Python's clipping of b
Slice(s, a, b) ==
  LET hi == IF b > Len(s) THEN Len(s) ELSE b
  IN  IF a >= hi THEN <<>> ELSE [i \in 1..(hi - a) |-> s[a + i]]

\* s.find(sub): the 0-based offset of the first occurrence, or -1
find(s, sub) ==
  LET hits == {p \in 0..(Len(s) - Len(sub)) : Slice(s, p, p + Len(sub)) = sub}
  IN  IF hits = {} THEN -1 ELSE CHOOSE p \in hits : \A q \in hits : p <= q

abs(x) == IF x < 0 THEN -x ELSE x

Min(a, b) == IF a < b THEN a ELSE b

\* re.sub(r'[\s-]', '', s) and re.sub(r'\s', '', s)
RECURSIVE Strip(_, _)
Strip(s, drop) ==
  IF s = <<>> THEN <<>>
  ELSE IF Head(s) \in drop THEN Strip(Tail(s), drop)
       ELSE <<Head(s)>> \o Strip(Tail(s), drop)

RECURSIVE SumSeq(_)
SumSeq(s) == IF s = <<>> THEN 0 ELSE Head(s) + SumSeq(Tail(s))

(***************************************************************************)
(* Regular expressions.  A pattern is a sequence of alternatives in        *)
(* priority order; an alternative is a sequence of items; an item is the   *)
(* word boundary \b or a character class with a greedy {min,max} count.    *)
(* Matching is case-insensitive (re.IGNORECASE) and backtracks as Python's *)
(* re does: the longest repetition whose continuation matches.             *)
(***************************************************************************)
WB == [kind |-> "wb"]

Cls(set, lo, hi) == [kind |-> "cls", set |-> set, min |-> lo, max |-> hi]

Lit(c) == Cls({c}, 1, 1)

D(n) == Cls(Range(DigitChars), n, n)

Sep == Cls({" ", "-"}, 0, 1)

Space == Cls({" "}, 0, 1)

IsWordChar(c) == isdigit(c) \/ isupper(c) \/ islower(c) \/ c = "_"

\* \b at 0-based offset p
AtBoundary(text, p) ==
  LET before == p >= 1 /\ IsWordChar(text[p])
      after  == p < Len(text) /\ IsWordChar(text[p + 1])
  IN  before # after

ClassHas(set, c) == c \in set \/ lower_char(c) \in set \/ upper_char(c) \in set

\* The end offset of the preferred match of items[k..] at offset p, or -1.
RECURSIVE MatchSeq(_, _, _, _)
MatchSeq(items, k, text, p) ==
  IF k > Len(items) THEN p
  ELSE LET it == items[k]
       IN  IF it.kind = "wb"
           THEN IF AtBoundary(text, p) THEN MatchSeq(items, k + 1, text, p) ELSE -1
           ELSE LET ok == {n \in it.min..it.max :
                             /\ p + n <= Len(text)
                             /\ \A j \in 1..n : ClassHas(it.set, text[p + j])
                             /\ MatchSeq(items, k + 1, text, p + n) # -1}
                IN  IF ok = {} THEN -1
                    ELSE MatchSeq(items, k + 1, text,
                                  p + (CHOOSE n \in ok : \A m \in ok : m <= n))

RECURSIVE MatchAlt(_, _, _, _)
MatchAlt(pattern, a, text, p) ==
  IF a > Len(pattern) THEN -1
  ELSE LET e == MatchSeq(pattern[a], 1, text, p)
       IN  IF e # -1 THEN e ELSE MatchAlt(pattern, a + 1, text, p)

\* re.finditer(pattern, text, re.IGNORECASE): the matches, left to right.
\* The scan resumes at the end of a match, or one further after an empty one.
RECURSIVE finditer(_, _, _)
finditer(pattern, text, p) ==
  LET starts == {q \in p..Len(text) : MatchAlt(pattern, 1, text, q) # -1}
  IN  IF starts = {} THEN <<>>
      ELSE LET q == CHOOSE q \in starts : \A r \in starts : q <= r
               e == MatchAlt(pattern, 1, text, q)
           IN  <<[start |-> q, end |-> e]>>
                 \o finditer(pattern, text, IF e > q THEN e ELSE q + 1)

(***************************************************************************)
(* SpanishFinancialPatterns: the regular expressions and context keywords  *)
(***************************************************************************)
Letters(from, to) == {UpperLetters[i] : i \in IndexOf(UpperLetters, from)..IndexOf(UpperLetters, to)}

\* \b\d{8}[A-HJ-NP-TV-Z]\b
DNI_PATTERN ==
  <<<<WB, D(8),
      Cls(Letters("A", "H") \cup Letters("J", "N") \cup Letters("P", "T") \cup Letters("V", "Z"), 1, 1),
      WB>>>>

DNI_CONTEXT ==
  <<<<"d","n","i">>,
    <<"d","o","c","u","m","e","n","t","o">>,
    <<"i","d","e","n","t","i","d","a","d">>,
    <<"n","i","f">>>>

\* \b[XYZ]\d{7}[A-Z]\b
NIE_PATTERN == <<<<WB, Cls({"X", "Y", "Z"}, 1, 1), D(7), Cls(Letters("A", "Z"), 1, 1), WB>>>>

NIE_CONTEXT ==
  <<<<"n","i","e">>,
    <<"e","x","t","r","a","n","j","e","r","o">>,
    <<"r","e","s","i","d","e","n","c","i","a">>>>

\* \b[ABCDEFGHJKLMNPQRSUVW]\d{8}\b
CIF_PATTERN ==
  <<<<WB,
      Cls(Letters("A", "H") \cup Letters("J", "N") \cup Letters("P", "S") \cup Letters("U", "W"), 1, 1),
      D(8), WB>>>>

CIF_CONTEXT ==
  <<<<"c","i","f">>,
    <<"e","m","p","r","e","s","a">>,
    <<"s","o","c","i","e","d","a","d">>,
    <<"f","i","s","c","a","l">>>>

\* \bES\d{2}\s?\d{4}\s?\d{4}\s?\d{2}\s?\d{10}\b
IBAN_ES_PATTERN ==
  <<<<WB, Lit("E"), Lit("S"), D(2), Space, D(4), Space, D(4), Space, D(2), Space, D(10), WB>>>>

IBAN_CONTEXT ==
  <<<<"i","b","a","n">>,
    <<"c","u","e","n","t","a">>,
    <<"b","a","n","c","a","r","i","a">>,
    <<"t","r","a","n","s","f","e","r","e","n","c","i","a">>>>

\* \b(?:\d{4}[\s-]?){3}\d{4}\b
CARD_PATTERN == <<<<WB, D(4), Sep, D(4), Sep, D(4), Sep, D(4), WB>>>>

CARD_CONTEXT ==
  <<<<"t","a","r","j","e","t","a">>,
    <<"v","i","s","a">>,
    <<"m","a","s","t","e","r","c","a","r","d">>,
    <<"c","r","e","d","i","t","o">>,
    <<"d","e","b","i","t","o">>>>

PhoneBody ==
  <<Cls({"6", "7", "8", "9"}, 1, 1), D(2), Sep, D(2), Sep, D(2), Sep, D(2), WB>>

\* \b(?:(?:\+34|0034)?[\s-]?)?[6789]\d{2}[\s-]?\d{2}[\s-]?\d{2}[\s-]?\d{2}\b
\* The optional prefix unfolds into its choices, tried in the order re tries them.
PHONE_ES_PATTERN ==
  << <<WB, Lit("+"), Lit("3"), Lit("4"), Sep>> \o PhoneBody,
     <<WB, Lit("0"), Lit("0"), Lit("3"), Lit("4"), Sep>> \o PhoneBody,
     <<WB, Sep>> \o PhoneBody >>

PHONE_CONTEXT ==
  <<<<"t","e","l","e","f","o","n","o">>,
    <<"m","o","v","i","l">>,
    <<"c","o","n","t","a","c","t","o">>,
    <<"w","h","a","t","s","a","p","p">>>>

\* \b[A-Z]{3}\d{6}\b
MERCHANT_CODE_PATTERN == <<<<WB, Cls(Letters("A", "Z"), 3, 3), D(6), WB>>>>

MERCHANT_CONTEXT ==
  <<<<"c","o","m","e","r","c","i","o">>,
    <<"e","s","t","a","b","l","e","c","i","m","i","e","n","t","o">>,
    <<"m","e","r","c","h","a","n","t">>,
    <<"t","p","v">>>>

\* \b(?:REF|ref)[:\s]?[A-Z0-9]{8,16}\b
TRANSFER_REF_PATTERN ==
  <<<<WB, Lit("R"), Lit("E"), Lit("F"), Cls({":", " "}, 0, 1),
      Cls(Letters("A", "Z") \cup Range(DigitChars), 8, 16), WB>>>>

TRANSFER_CONTEXT ==
  <<<<"r","e","f","e","r","e","n","c","i","a">>,
    <<"t","r","a","n","s","f","e","r","e","n","c","i","a">>,
    <<"o","p","e","r","a","c","i","o","n">>>>

(***************************************************************************)
(* Validators                                                              *)
(***************************************************************************)
\* The Luhn pass of _validate_credit_card: every second digit from the one
\* before the last is doubled, and reduced by 9 when above 9.
LuhnDigit(digits, i) ==
  LET d == int(digits[i])
  IN  IF (Len(digits) - i) % 2 = 1
      THEN (IF 2 * d > 9 THEN 2 * d - 9 ELSE 2 * d)
      ELSE d

\* _validate_credit_card(number): [raised, value].  int(d) of line 250
\* raises ValueError on a character that is a digit for str.isdigit() and no
\* decimal digit; no caller catches it.
ValidateCard(digits) ==
  IF digits = <<>> \/ (\E i \in 1..Len(digits) : ~str_isdigit(digits[i]))
     \/ Len(digits) < 12 \/ Len(digits) > 19
  THEN [raised |-> FALSE, value |-> FALSE]
  ELSE IF \E i \in 1..Len(digits) : ~isdigit(digits[i])
  THEN [raised |-> TRUE, value |-> FALSE]
  ELSE [raised |-> FALSE,
        value |-> SumSeq([i \in 1..Len(digits) |-> LuhnDigit(digits, i)]) % 10 = 0]

\* The value returned on the matches of CARD_PATTERN and on the spans of the
\* model's texts, which hold decimal digits only
_validate_credit_card(number) == ValidateCard(Strip(number, {" ", "-"})).value

\* int(numeral) % m, digit by digit
RECURSIVE ModOf(_, _, _)
ModOf(numeral, m, acc) ==
  IF numeral = <<>> THEN acc
  ELSE ModOf(Tail(numeral), m, (acc * 10 + int(Head(numeral))) % m)

dni_letters ==
  <<"T","R","W","A","G","M","Y","F","P","D","X","B","N","J","Z","S","Q","V","H","L","C","K","E">>

\* int(dni[:8]) raises on anything but digits (the models' texts hold no
\* sign, space or underscore), and the except clause answers False.
_validate_spanish_dni(dni) ==
  IF Len(dni) # 9 THEN FALSE
  ELSE IF \E i \in 1..8 : ~isdigit(dni[i]) THEN FALSE
  ELSE dni_letters[ModOf(Slice(dni, 0, 8), 23, 0) + 1] = upper_char(dni[9])

RECURSIVE IbanNumeric(_)
IbanNumeric(s) ==
  IF s = <<>> THEN <<>>
  ELSE IF isdigit(Head(s)) THEN <<Head(s)>> \o IbanNumeric(Tail(s))
  ELSE LET n == IndexOf(UpperLetters, Head(s)) + 9
       IN  <<DigitChars[(n \div 10) + 1], DigitChars[(n % 10) + 1]>> \o IbanNumeric(Tail(s))

\* re.match(r'^[A-Z]{2}\d{2}[A-Z0-9]+$', iban), case-sensitive
IbanShape(iban) ==
  /\ Len(iban) >= 5
  /\ isupper(iban[1]) /\ isupper(iban[2]) /\ isdigit(iban[3]) /\ isdigit(iban[4])
  /\ \A i \in 5..Len(iban) : isupper(iban[i]) \/ isdigit(iban[i])

_validate_iban(text) ==
  LET iban == Strip(text, {" "})
  IN  IF ~IbanShape(iban) THEN FALSE
      ELSE ModOf(IbanNumeric(Slice(iban, 4, Len(iban)) \o Slice(iban, 0, 4)), 97, 0) = 1

(***************************************************************************)
(* The pattern catalog, the scorer and the overlap resolver                *)
(***************************************************************************)
\* _load_static_patterns, in the order of the dict.  Only CREDIT_CARD has a
\* 'validator' entry.
static_patterns ==
  << [entity_type |-> "ES_DNI", pattern |-> DNI_PATTERN, context |-> DNI_CONTEXT,
      confidence |-> 90, validator |-> "none"],
     [entity_type |-> "ES_NIE", pattern |-> NIE_PATTERN, context |-> NIE_CONTEXT,
      confidence |-> 90, validator |-> "none"],
     [entity_type |-> "ES_CIF", pattern |-> CIF_PATTERN, context |-> CIF_CONTEXT,
      confidence |-> 85, validator |-> "none"],
     [entity_type |-> "ES_IBAN", pattern |-> IBAN_ES_PATTERN, context |-> IBAN_CONTEXT,
      confidence |-> 95, validator |-> "none"],
     [entity_type |-> "CREDIT_CARD", pattern |-> CARD_PATTERN, context |-> CARD_CONTEXT,
      confidence |-> 85, validator |-> "_validate_credit_card"],
     [entity_type |-> "ES_PHONE", pattern |-> PHONE_ES_PATTERN, context |-> PHONE_CONTEXT,
      confidence |-> 80, validator |-> "none"],
     [entity_type |-> "MERCHANT_CODE", pattern |-> MERCHANT_CODE_PATTERN, context |-> MERCHANT_CONTEXT,
      confidence |-> 70, validator |-> "none"],
     [entity_type |-> "TRANSFER_REF", pattern |-> TRANSFER_REF_PATTERN, context |-> TRANSFER_CONTEXT,
      confidence |-> 75, validator |-> "none"] >>

\* self.static_patterns.get(entity_type, {}): the entry, or the defaults of
\* the .get calls of _calculate_confidence for a type outside the catalog
PatternOf(entity_type) ==
  IF \E i \in 1..Len(static_patterns) : static_patterns[i].entity_type = entity_type
  THEN static_patterns[CHOOSE i \in 1..Len(static_patterns) :
                         static_patterns[i].entity_type = entity_type]
  ELSE [entity_type |-> entity_type, pattern |-> <<>>, context |-> <<>>,
        confidence |-> 50, validator |-> "none"]

\* The for loop over context_words: the first keyword that occurs in the
\* lowered text decides the bonus, and the loop breaks there.
context_bonus(text, entity_type, match) ==
  LET words == PatternOf(entity_type).context
      text_lower == lower(text)
      present == {i \in 1..Len(words) : find(text_lower, words[i]) # -1}
  IN  IF present = {} THEN 0
      ELSE LET word == words[CHOOSE i \in present : \A j \in present : i <= j]
               distance == abs(find(text_lower, word) - find(text_lower, lower(match)))
           IN  IF distance < 20 THEN 20
               ELSE IF distance < 50 THEN 10
               ELSE 0

validation_bonus(entity_type, match) ==
  IF PatternOf(entity_type).validator = "_validate_credit_card"
  THEN (IF _validate_credit_card(match) THEN 15 ELSE -30)
  ELSE 0

\* The scorer without the min(1.0, ...) of its last line
UnclampedConfidence(text, entity_type, match) ==
  PatternOf(entity_type).confidence
    + context_bonus(text, entity_type, match)
    + validation_bonus(entity_type, match)

_calculate_confidence(text, entity_type, match) ==
  Min(100, PatternOf(entity_type).confidence
             + context_bonus(text, entity_type, match)
             + validation_bonus(entity_type, match))

Overlap(a, b) == a.start < b.end /\ a.end > b.start

\* list.sort(key=start): stable
RECURSIVE SortByStart(_)
SortByStart(entities) ==
  IF entities = <<>> THEN <<>>
  ELSE LET n == Len(entities)
           rest == SortByStart(SubSeq(entities, 1, n - 1))
           x == entities[n]
           keep == {i \in 1..Len(rest) : rest[i].start <= x.start}
           k == IF keep = {} THEN 0 ELSE CHOOSE i \in keep : \A j \in keep : j <= i
       IN  SubSeq(rest, 1, k) \o <<x>> \o SubSeq(rest, k + 1, Len(rest))

\* list.remove(x): drops the first element equal to x
ListRemove(list, x) ==
  LET i == CHOOSE i \in 1..Len(list) : list[i] = x /\ \A j \in 1..(i - 1) : list[j] # x
  IN  SubSeq(list, 1, i - 1) \o SubSeq(list, i + 1, Len(list))

\* The turn that lets the lower confidence win
OverlapStepLowest(result, entity) ==
  LET hit == {i \in 1..Len(result) : Overlap(entity, result[i])}
  IN  IF hit = {} THEN Append(result, entity)
      ELSE LET existing == result[CHOOSE i \in hit : \A j \in hit : i <= j]
           IN  IF entity.confidence < existing.confidence
               THEN Append(ListRemove(result, existing), entity)
               ELSE result

\* The turn that lets the candidate win a tie
OverlapStepTie(result, entity) ==
  LET hit == {i \in 1..Len(result) : Overlap(entity, result[i])}
  IN  IF hit = {} THEN Append(result, entity)
      ELSE LET existing == result[CHOOSE i \in hit : \A j \in hit : i <= j]
           IN  IF entity.confidence >= existing.confidence
               THEN Append(ListRemove(result, existing), entity)
               ELSE result

\* One turn of the outer loop of _remove_overlaps: the first accepted entity
\* that overlaps the candidate decides, and the inner loop breaks there.
OverlapStep(result, entity) ==
  LET hit == {i \in 1..Len(result) : Overlap(entity, result[i])}
  IN  IF hit = {} THEN Append(result, entity)
      ELSE LET existing == result[CHOOSE i \in hit : \A j \in hit : i <= j]
           IN  IF entity.confidence > existing.confidence
               THEN Append(ListRemove(result, existing), entity)
               ELSE result

RECURSIVE OverlapLoop(_, _)
OverlapLoop(result, entities) ==
  IF entities = <<>> THEN result
  ELSE OverlapLoop(OverlapStep(result, Head(entities)), Tail(entities))

\* The accepted list after each turn of the outer loop
RECURSIVE OverlapTrace(_, _)
OverlapTrace(result, entities) ==
  IF entities = <<>> THEN <<>>
  ELSE <<OverlapStep(result, Head(entities))>>
         \o OverlapTrace(OverlapStep(result, Head(entities)), Tail(entities))

\* The resolver that sorts and resolves nothing
KeepOverlaps(entities) == SortByStart(entities)

_remove_overlaps(entities) == OverlapLoop(<<>>, SortByStart(entities))

\* sum(e['confidence'] for e in entities) / len(entities) if entities else 0
Mean(entities) ==
  [sum |-> SumSeq([i \in 1..Len(entities) |-> entities[i].confidence]), n |-> Len(entities)]

\* mean < threshold, mean >= threshold
Below(mean, threshold) ==
  IF mean.n = 0 THEN 0 < threshold ELSE mean.sum < threshold * mean.n

AtLeast(mean, threshold) == ~Below(mean, threshold)

\* The entities of one catalog entry, in text order
StaticMatches(text, config) ==
  LET ms == finditer(config.pattern, text, 0)
  IN  [i \in 1..Len(ms) |->
         LET group == Slice(text, ms[i].start, ms[i].end)
         IN  [entity_type |-> config.entity_type,
              text |-> group,
              start |-> ms[i].start,
              end |-> ms[i].end,
              confidence |-> _calculate_confidence(text, config.entity_type, group),
              method |-> "static"]]

RECURSIVE StaticCandidates(_, _)
StaticCandidates(text, k) ==
  IF k > Len(static_patterns) THEN <<>>
  ELSE StaticMatches(text, static_patterns[k]) \o StaticCandidates(text, k + 1)

\* Capa 1
analyze_with_static_rules(text) ==
  LET entities == _remove_overlaps(StaticCandidates(text, 1))
  IN  [entities |-> entities, confidence |-> Mean(entities)]

(***************************************************************************)
(* Capa 2 and Capa 3                                                       *)
(***************************************************************************)
\* The Presidio collaborator, self.analyzer.analyze(text, language): what it
\* answers is outside the program, so a response is an input of the call:
\* whether the analysis raises in "es", whether it raises in "en", and the
\* recognizer results it returns otherwise.
\* The try/except of analyze_with_presidio: "es" first, "en" when that raises.
PresidioRaises(response) == response.fail_es /\ response.fail_en

PresidioCalls(response) == IF response.fail_es THEN <<"es", "en">> ELSE <<"es">>

\* The recognizer results for a text are the response's spans that lie in it.
RECURSIVE analyze(_, _)
analyze(results, text) ==
  IF results = <<>> THEN <<>>
  ELSE (IF Head(results).end <= Len(text) THEN <<Head(results)>> ELSE <<>>)
       \o analyze(Tail(results), text)

analyze_with_presidio(text, response) ==
  LET results == analyze(response.results, text)
      entities == [i \in 1..Len(results) |->
                     [entity_type |-> results[i].entity_type,
                      text |-> Slice(text, results[i].start, results[i].end),
                      start |-> results[i].start,
                      end |-> results[i].end,
                      confidence |-> results[i].score,
                      method |-> "presidio"]]
  IN  [entities |-> entities, confidence |-> Mean(entities)]

_simulate_llm_validation(entity) ==
  IF entity.entity_type = "ES_DNI"
  THEN Len(entity.text) = 9 /\ _validate_spanish_dni(entity.text)
  ELSE IF entity.entity_type = "CREDIT_CARD" THEN _validate_credit_card(entity.text)
  ELSE IF entity.entity_type = "ES_IBAN" THEN _validate_iban(entity.text)
  ELSE entity.confidence > 40

\* The confirmation that leaves the method as it was
LlmKeepMethod(entity) ==
  [entity EXCEPT !.confidence = Min(100, entity.confidence + 30)]

\* entity['confidence'] = min(1.0, entity['confidence'] + 0.3)
LlmConfirm(entity) ==
  [entity EXCEPT !.confidence = Min(100, entity.confidence + 30), !.method = "llm_validated"]

RECURSIVE analyze_with_llm(_, _)
analyze_with_llm(text, uncertain_entities) ==
  IF uncertain_entities = <<>> THEN <<>>
  ELSE (IF _simulate_llm_validation(Head(uncertain_entities))
        THEN <<LlmConfirm(Head(uncertain_entities))>> ELSE <<>>)
       \o analyze_with_llm(text, Tail(uncertain_entities))

RECURSIVE Filter(_, _, _)
Filter(entities, threshold, below) ==
  IF entities = <<>> THEN <<>>
  ELSE (IF (Head(entities).confidence < threshold) = below THEN <<Head(entities)>> ELSE <<>>)
       \o Filter(Tail(entities), threshold, below)

(***************************************************************************)
(* The texts of the model                                                  *)
(***************************************************************************)
\* A context keyword, a DNI, a card number that fails Luhn, a transfer
\* reference that holds a merchant code, and one value of each other type
W_dni == <<"d","n","i">>

W_DNI == <<"1","2","3","4","5","6","7","8","Z">>

W_CARD == <<"4","5","3","2","0","1","5","1","1","2","8","3","0","3","6","7">>

W_REF == <<"R","E","F",":","A","B","C","1","2","3","4","5","6">>

W_iban == <<"i","b","a","n">>

W_IBAN == <<"E","S","9","1","2","1","0","0","0","4","1","8","4","5","0","2","0","0","0","5","1","3","3","2">>

W_NIE == <<"X","1","2","3","4","5","6","7","L">>

W_CIF == <<"B","1","2","3","4","5","6","7","8">>

W_PHONE == <<"6","5","5","1","2","3","4","5","6">>

\* Filler that is longer than the 100 characters of text[:100]
W_PAD == [i \in 1..101 |-> "."]

RECURSIVE Join(_)
Join(words) ==
  IF words = <<>> THEN <<>>
  ELSE IF Len(words) = 1 THEN words[1]
  ELSE words[1] \o <<" ">> \o Join(Tail(words))

\* No entity; a confident one; one that the context keyword raises above the
\* cap; one that fails its validator; an overlapping pair; mixtures; the
\* other four types of the catalog; an entity that lies after offset 100
Texts ==
  {Join(ws) : ws \in {<<>>, <<W_dni>>, <<W_DNI>>, <<W_dni, W_DNI>>, <<W_CARD>>, <<W_REF>>,
                      <<W_DNI, W_CARD>>, <<W_CARD, W_REF>>, <<W_dni, W_REF>>,
                      <<W_iban, W_IBAN, W_NIE, W_CIF, W_PHONE>>,
                      <<W_PAD, W_CARD>>}}

\* analyze_with_static_rules for each text of the model, computed once
Capa1 == [text \in Texts |-> analyze_with_static_rules(text)]

(***************************************************************************)
(* The orchestrator.  self is the engine: its configuration, its learned   *)
(* patterns, its processing-stats log and its uncertain-cases queue, and   *)
(* (no field of the program) the count of the process calls that returned. *)
(***************************************************************************)
\* The timestamp and the latency of a stats record are wall-clock values and
\* are left out of it.
_record_processing(self, text, entities, confidence) ==
  [self EXCEPT
     !.processing_stats = Append(@, [text_length |-> Len(text),
                                     entities_found |-> Len(entities),
                                     confidence |-> confidence]),
     !.uncertain_cases = IF Below(confidence, self.llm_threshold)
                         THEN Append(@, [text |-> Slice(text, 0, 100),
                                         entities |-> entities,
                                         confidence |-> confidence])
                         ELSE @]

\* What one call of process does: the value it returns (or that it raised),
\* the engine it leaves, and the tiers it went through with the arguments it
\* gave to the collaborators.  all_entities is the list as it stood before
\* Capa 3: the list returned, unless Capa 3 changed it.
Outcome(self, raised, entities, confidence, tiers, presidio, llm) ==
  [self |-> IF raised THEN self ELSE [self EXCEPT !.returned = @ + 1],
   raised |-> raised, entities |-> entities, confidence |-> confidence,
   tiers |-> tiers, presidio_calls |-> presidio, llm_calls |-> llm,
   all_entities |-> entities]

\* Capa 3 given every entity instead of the uncertain ones
Tier3All(self, text, all_entities, combined_conf, tiers, presidio) ==
  LET use_llm == self.enable_llm /\ Below(combined_conf, self.llm_threshold) /\ all_entities # <<>>
      validated == analyze_with_llm(text, all_entities)
      final == IF use_llm THEN validated ELSE all_entities
      conf == IF use_llm THEN Mean(final) ELSE combined_conf
  IN  [Outcome(_record_processing(self, text, final, conf), FALSE, final, conf,
               tiers \o (IF use_llm THEN <<"LLM_ADJUDICATION">> ELSE <<>>) \o <<"FINALIZED">>,
               presidio,
               IF use_llm THEN <<[entities |-> all_entities, combined_conf |-> combined_conf]>>
               ELSE <<>>)
        EXCEPT !.all_entities = all_entities]

\* Capa 3 that keeps the confidence computed before it
Tier3StaleConfidence(self, text, all_entities, combined_conf, tiers, presidio) ==
  LET uncertain == Filter(all_entities, self.llm_threshold, TRUE)
      certain == Filter(all_entities, self.llm_threshold, FALSE)
      use_llm == self.enable_llm /\ Below(combined_conf, self.llm_threshold) /\ uncertain # <<>>
      validated == analyze_with_llm(text, uncertain)
      final == IF use_llm THEN certain \o validated ELSE all_entities
  IN  [Outcome(_record_processing(self, text, final, combined_conf), FALSE, final, combined_conf,
               tiers \o (IF use_llm THEN <<"LLM_ADJUDICATION">> ELSE <<>>) \o <<"FINALIZED">>,
               presidio,
               IF use_llm THEN <<[entities |-> uncertain, combined_conf |-> combined_conf]>>
               ELSE <<>>)
        EXCEPT !.all_entities = all_entities]

\* Lines 598-613: Capa 3 on the uncertain entities, then _record_processing
Tier3(self, text, all_entities, combined_conf, tiers, presidio) ==
  LET uncertain == Filter(all_entities, self.llm_threshold, TRUE)
      certain == Filter(all_entities, self.llm_threshold, FALSE)
      use_llm == self.enable_llm /\ Below(combined_conf, self.llm_threshold) /\ uncertain # <<>>
      validated == analyze_with_llm(text, uncertain)
      final == IF use_llm THEN certain \o validated ELSE all_entities
      conf == IF use_llm THEN Mean(final) ELSE combined_conf
  IN  [Outcome(_record_processing(self, text, final, conf), FALSE, final, conf,
               tiers \o (IF use_llm THEN <<"LLM_ADJUDICATION">> ELSE <<>>) \o <<"FINALIZED">>,
               presidio,
               IF use_llm THEN <<[entities |-> uncertain, combined_conf |-> combined_conf]>>
               ELSE <<>>)
        EXCEPT !.all_entities = all_entities]

\* Lines 578-596: Capa 2, the merge and the second confidence gate
Tier2(self, text, static, response) ==
  IF self.enable_presidio /\ self.analyzer # "None"
  THEN IF PresidioRaises(response)
       THEN Outcome(self, TRUE, <<>>, Mean(<<>>), <<"STATIC_ONLY", "STATISTICAL_MERGE">>,
                    PresidioCalls(response), <<>>)
       ELSE LET presidio == analyze_with_presidio(text, response)
                all_entities == _remove_overlaps(static.entities \o presidio.entities)
                combined_conf == Mean(all_entities)
                tiers == <<"STATIC_ONLY", "STATISTICAL_MERGE">>
            IN  IF AtLeast(combined_conf, self.llm_threshold)
                THEN Outcome(self, FALSE, all_entities, combined_conf,
                             tiers \o <<"FINALIZED">>, PresidioCalls(response), <<>>)
                ELSE Tier3(self, text, all_entities, combined_conf, tiers, PresidioCalls(response))
  ELSE IF AtLeast(static.confidence, self.llm_threshold)
       THEN Outcome(self, FALSE, static.entities, static.confidence,
                    <<"STATIC_ONLY", "FINALIZED">>, <<>>, <<>>)
       ELSE Tier3(self, text, static.entities, static.confidence, <<"STATIC_ONLY">>, <<>>)

\* process without the confidence gate of line 574
Tier1NoGate(self, text, use_adaptive, response, static) ==
  IF ~use_adaptive \/ ~self.enable_presidio
  THEN Outcome(self, FALSE, static.entities, static.confidence,
               <<"STATIC_ONLY", "FINALIZED">>, <<>>, <<>>)
  ELSE Tier2(self, text, static, response)

\* process with the learned patterns fed back into Capa 1: an entity of a type
\* that has learned patterns is scored 0.1 higher
Boost(learned_patterns, entities) ==
  [i \in 1..Len(entities) |->
     IF \E k \in 1..Len(learned_patterns) : learned_patterns[k].key = entities[i].entity_type
     THEN [entities[i] EXCEPT !.confidence = Min(100, @ + 10)]
     ELSE entities[i]]

Tier1Boosted(self, text, use_adaptive, response, boosted) ==
  IF ~use_adaptive \/ ~self.enable_presidio
  THEN Outcome(self, FALSE, boosted, Mean(boosted), <<"STATIC_ONLY", "FINALIZED">>, <<>>, <<>>)
  ELSE IF AtLeast(Mean(boosted), self.confidence_threshold)
  THEN Outcome(self, FALSE, boosted, Mean(boosted), <<"STATIC_ONLY", "FINALIZED">>, <<>>, <<>>)
  ELSE Tier2(self, text, [entities |-> boosted, confidence |-> Mean(boosted)], response)

Tier1Learned(self, text, use_adaptive, response, static) ==
  Tier1Boosted(self, text, use_adaptive, response, Boost(self.learned_patterns, static.entities))

\* Lines 562-576: the static-mode return and the first confidence gate, on
\* the result of Capa 1
Tier1(self, text, use_adaptive, response, static) ==
  IF ~use_adaptive \/ ~self.enable_presidio
  THEN Outcome(self, FALSE, static.entities, static.confidence,
               <<"STATIC_ONLY", "FINALIZED">>, <<>>, <<>>)
  ELSE IF AtLeast(static.confidence, self.confidence_threshold)
  THEN Outcome(self, FALSE, static.entities, static.confidence,
               <<"STATIC_ONLY", "FINALIZED">>, <<>>, <<>>)
  ELSE Tier2(self, text, static, response)

process(self, text, use_adaptive, response) ==
  Tier1(self, text, use_adaptive, response, Capa1[text])

(***************************************************************************)
(* Replacement and anonymization                                           *)
(***************************************************************************)
\* The characters of an entity type's name, for f"<{entity_type}>"
TypeName(entity_type) ==
  CASE entity_type = "ES_DNI" -> <<"E","S","_","D","N","I">>
    [] entity_type = "ES_NIE" -> <<"E","S","_","N","I","E">>
    [] entity_type = "ES_CIF" -> <<"E","S","_","C","I","F">>
    [] entity_type = "ES_IBAN" -> <<"E","S","_","I","B","A","N">>
    [] entity_type = "CREDIT_CARD" -> <<"C","R","E","D","I","T","_","C","A","R","D">>
    [] entity_type = "ES_PHONE" -> <<"E","S","_","P","H","O","N","E">>
    [] entity_type = "MERCHANT_CODE" -> <<"M","E","R","C","H","A","N","T","_","C","O","D","E">>
    [] entity_type = "TRANSFER_REF" -> <<"T","R","A","N","S","F","E","R","_","R","E","F">>
    [] entity_type = "PERSON" -> <<"P","E","R","S","O","N">>

Last4(s) == Slice(s, Len(s) - 4, Len(s))

\* hashlib.md5(original_text.encode()).hexdigest()[:8] is kept as one opaque
\* element that names its preimage: the string "md5(" original_text ")".
RECURSIVE Concat(_)
Concat(chars) == IF chars = <<>> THEN "" ELSE Head(chars) \o Concat(Tail(chars))

md5(original_text) == "md5(" \o Concat(original_text) \o ")"

\* The replacement that is the type's tag under every method
TagReplacement(entity, method) == <<"<">> \o TypeName(entity.entity_type) \o <<">">>

_get_replacement(entity, method) ==
  LET entity_type == entity.entity_type
      original_text == entity.text
      tag == <<"<">> \o TypeName(entity_type) \o <<">">>
  IN  IF method = "mask"
      THEN IF entity_type = "CREDIT_CARD"
           THEN LET digits == Strip(original_text, {" ", "-"})
                IN  IF Len(digits) >= 4
                    THEN <<"*","*","*","*","-","*","*","*","*","-","*","*","*","*","-">> \o Last4(digits)
                    ELSE <<"*","*","*","*","-","*","*","*","*","-","*","*","*","*","-","*","*","*","*">>
           ELSE IF entity_type = "ES_DNI"
           THEN <<"*","*","*","*","*","*","*","*","X">>
           ELSE IF entity_type = "ES_PHONE"
           THEN IF Slice(original_text, 0, 3) = <<"+","3","4">>
                THEN <<"+","3","4"," ","*","*","*"," ","*","*"," ","*","*"," ","*","*">>
                ELSE <<"*","*","*"," ","*","*"," ","*","*"," ","*","*">>
           ELSE IF entity_type = "ES_IBAN"
           THEN LET clean == Strip(original_text, {" "})
                IN  IF Len(clean) >= 6
                    THEN Slice(clean, 0, 4) \o <<".",".",".">> \o Last4(clean)
                    ELSE <<"E","S","*","*",".",".",".","*","*","*","*">>
           ELSE tag
      ELSE IF method = "replace" THEN tag
      ELSE IF method = "hash"
      THEN <<"<">> \o TypeName(entity_type) \o <<"_", md5(original_text), ">">>
      ELSE <<"<","R","E","D","A","C","T","E","D",">">>

\* The sort of anonymize_text without reverse=True
SortAscending(entities) == SortByStart(entities)

\* list.sort(key=start, reverse=True): stable
RECURSIVE SortByStartDesc(_)
SortByStartDesc(entities) ==
  IF entities = <<>> THEN <<>>
  ELSE LET n == Len(entities)
           rest == SortByStartDesc(SubSeq(entities, 1, n - 1))
           x == entities[n]
           keep == {i \in 1..Len(rest) : rest[i].start >= x.start}
           k == IF keep = {} THEN 0 ELSE CHOOSE i \in keep : \A j \in keep : j <= i
       IN  SubSeq(rest, 1, k) \o <<x>> \o SubSeq(rest, k + 1, Len(rest))

RECURSIVE Substitute(_, _, _)
Substitute(anonymized, entities, method) ==
  IF entities = <<>> THEN anonymized
  ELSE LET entity == Head(entities)
       IN  Substitute(Slice(anonymized, 0, entity.start)
                        \o _get_replacement(entity, method)
                        \o Slice(anonymized, entity.end, Len(anonymized)),
                      Tail(entities), method)

\* A Python value that may or may not be a str
PyStr(chars) == [type |-> "str", value |-> chars]

\* An int, by its numeral
PyInt(numeral) == [type |-> "int", value |-> numeral]

\* Lines 484-504 of anonymize_text on what process answered.  The list
\* process returns is the one the uncertain-cases entry of the call holds, so
\* sorting it in place reorders that too.  entities is the local list of the
\* call, as the loop of lines 494-502 went through it.
Replace(self, text, method, out, sorted) ==
  IF out.raised THEN [self |-> out.self, raised |-> TRUE, value |-> text, entities |-> <<>>]
  ELSE [self |-> IF Len(out.self.uncertain_cases) > Len(self.uncertain_cases)
                 THEN [out.self EXCEPT
                         !.uncertain_cases[Len(out.self.uncertain_cases)].entities = sorted]
                 ELSE out.self,
        raised |-> FALSE,
        value |-> PyStr(Substitute(text.value, sorted, method)),
        entities |-> sorted]

SortAndReplace(self, text, method, out) ==
  Replace(self, text, method, out, SortByStartDesc(out.entities))

\* anonymize_text(value, method): [self, raised, value].  A value that is no
\* str makes re.finditer raise TypeError in analyze_with_static_rules, before
\* anything is recorded.
anonymize_text(self, text, method, response) ==
  IF text.type # "str" THEN [self |-> self, raised |-> TRUE, value |-> text, entities |-> <<>>]
  ELSE SortAndReplace(self, text, method, process(self, text.value, TRUE, response))

\* A field assignment that builds the record anew from the anonymized field
SetOnlyField(st, field, r) ==
  [self |-> r.self, raised |-> r.raised,
   tx |-> IF r.raised THEN st.tx ELSE [f \in {field} |-> r.value]]

\* anonymized[field] = self.anonymize_text(anonymized[field])
SetField(st, field, r) ==
  [self |-> r.self, raised |-> r.raised,
   tx |-> IF r.raised THEN st.tx ELSE [st.tx EXCEPT ![field] = r.value]]

\* The three text fields of one transaction, in the order of the code
RECURSIVE AnonFields(_, _, _, _)
AnonFields(st, fields, k, response) ==
  IF k > Len(fields) \/ st.raised THEN st
  ELSE IF fields[k] \notin DOMAIN st.tx THEN AnonFields(st, fields, k + 1, response)
  ELSE AnonFields(SetField(st, fields[k],
                           anonymize_text(st.self, st.tx[fields[k]], "mask", response)),
                  fields, k + 1, response)

\* anonymized_transactions.append(anon_tx).  anon_tx is transaction.copy(),
\* so the assignments reach the copy and the caller's records stay as given.
AppendTx(st, r) ==
  [self |-> r.self, raised |-> r.raised, input |-> st.input,
   value |-> IF r.raised THEN <<>> ELSE Append(st.value, r.tx)]

RECURSIVE AnonLoop(_, _, _, _)
AnonLoop(st, transactions, k, response) ==
  IF k > Len(transactions) \/ st.raised THEN st
  ELSE AnonLoop(AppendTx(st, AnonFields([self |-> st.self, raised |-> FALSE,
                                          tx |-> transactions[k]],
                                         <<"concept", "description", "notes">>, 1, response)),
                transactions, k + 1, response)

\* anonymize_transactions(transactions): [self, raised, value, input], input
\* being the caller's list after the call.  An exception of anonymize_text is
\* not caught: it ends the call and nothing is returned.
anonymize_transactions(self, transactions, response) ==
  AnonLoop([self |-> self, raised |-> FALSE, input |-> transactions, value |-> <<>>],
           transactions, 1, response)

(***************************************************************************)
(* The learned-pattern store.  A dict is the sequence of its [key, value]  *)
(* items in insertion order.                                               *)
(***************************************************************************)
Keys(dict) == {dict[i].key : i \in 1..Len(dict)}

Get(dict, key) == dict[CHOOSE i \in 1..Len(dict) : dict[i].key = key].value

\* dict[key] = value
Put(dict, key, value) ==
  IF key \in Keys(dict)
  THEN [i \in 1..Len(dict) |-> IF dict[i].key = key THEN [key |-> key, value |-> value] ELSE dict[i]]
  ELSE Append(dict, [key |-> key, value |-> value])

\* re.sub of one-character matches: every character of the class is replaced
RECURSIVE Sub(_, _, _)
Sub(s, class, repl) ==
  IF s = <<>> THEN <<>>
  ELSE (IF Head(s) \in class THEN repl ELSE <<Head(s)>>) \o Sub(Tail(s), class, repl)

\* str.count(sub): occurrences that do not overlap, left to right
RECURSIVE Count(_, _)
Count(s, sub) ==
  IF Len(s) < Len(sub) THEN 0
  ELSE IF SubSeq(s, 1, Len(sub)) = sub THEN 1 + Count(SubSeq(s, Len(sub) + 1, Len(s)), sub)
  ELSE Count(Tail(s), sub)

\* The three re.sub calls of _extract_pattern, one after the other
Generalize(text) ==
  LET p1 == Sub(text, Range(DigitChars), <<"\\", "d">>)
      p2 == Sub(p1, Range(UpperLetters), <<"[", "A", "-", "Z", "]">>)
  IN  Sub(p2, Range(LowerLetters), <<"[", "a", "-", "z", "]">>)

\* None is the empty sequence: `if pattern:` treats both alike
_extract_pattern(text) ==
  LET pattern == Generalize(text)
  IN  IF Count(pattern, <<"\\", "d">>) > 2 \/ Count(pattern, <<"[", "A", "-", "Z", "]">>) > 2
      THEN pattern
      ELSE <<>>

\* The first loop of learn_new_patterns
RECURSIVE NewPatterns(_, _)
NewPatterns(new_patterns, validated_entities) ==
  IF validated_entities = <<>> THEN new_patterns
  ELSE LET entity == Head(validated_entities)
           with_key == IF entity.entity_type \in Keys(new_patterns) THEN new_patterns
                       ELSE Put(new_patterns, entity.entity_type, <<>>)
           pattern == _extract_pattern(entity.text)
       IN  NewPatterns(IF pattern # <<>>
                       THEN Put(with_key, entity.entity_type,
                                Append(Get(with_key, entity.entity_type), pattern))
                       ELSE with_key,
                       Tail(validated_entities))

\* The second loop of learn_new_patterns
RECURSIVE UpdateLearned(_, _)
UpdateLearned(learned, new_patterns) ==
  IF new_patterns = <<>> THEN learned
  ELSE LET item == Head(new_patterns)
           with_key == IF item.key \in Keys(learned) THEN learned ELSE Put(learned, item.key, <<>>)
       IN  UpdateLearned(Put(with_key, item.key, Get(with_key, item.key) \o item.value),
                         Tail(new_patterns))

\* A JSON string literal escapes the backslash and the quote
RECURSIVE JsonEscape(_)
JsonEscape(chars) ==
  IF chars = <<>> THEN <<>>
  ELSE (IF Head(chars) \in {"\\", "\""} THEN <<"\\", Head(chars)>> ELSE <<Head(chars)>>)
       \o JsonEscape(Tail(chars))

RECURSIVE JsonUnescape(_)
JsonUnescape(chars) ==
  IF chars = <<>> THEN <<>>
  ELSE IF Head(chars) = "\\" /\ Len(chars) >= 2
       THEN <<chars[2]>> \o JsonUnescape(SubSeq(chars, 3, Len(chars)))
       ELSE <<Head(chars)>> \o JsonUnescape(Tail(chars))

\* json.dump(self.learned_patterns, f): the members of the object in the
\* order of the dict, each value the array of its patterns as string literals
json_dump(obj) ==
  [i \in 1..Len(obj) |->
     [key |-> obj[i].key,
      value |-> [j \in 1..Len(obj[i].value) |-> JsonEscape(obj[i].value[j])]]]

\* A reader that takes the string literals as they are written
LoadRaw(content) == content

\* json.load(f)
json_load(content) ==
  [i \in 1..Len(content) |->
     [key |-> content[i].key,
      value |-> [j \in 1..Len(content[i].value) |-> JsonUnescape(content[i].value[j])]]]

\* The patterns file: whether it exists, whether its bytes are a JSON
\* document (a file just opened for writing is empty and is none), and the
\* members of the document
NoFile == [exists |-> FALSE, json |-> FALSE, content |-> <<>>]

JsonFile(content) == [exists |-> TRUE, json |-> TRUE, content |-> content]

\* open(self.patterns_file, 'w'): the file exists and is empty
Truncated == [exists |-> TRUE, json |-> FALSE, content |-> <<>>]

\* The length of the document json.dump(obj, f, indent=2) writes: "{}" for
\* the empty map, else one line for each member's key, each pattern and
\* each closing bracket
ArrayBytes(value) ==
  IF value = <<>> THEN 2
  ELSE 2 + SumSeq([j \in 1..Len(value) |-> 4 + 1 + Len(value[j]) + 1])
         + 2 * (Len(value) - 1) + 4

JsonBytes(content) ==
  IF content = <<>> THEN 2
  ELSE 2 + SumSeq([i \in 1..Len(content) |->
                     2 + 1 + Len(content[i].key) + 1 + 2 + ArrayBytes(content[i].value)])
         + 2 * (Len(content) - 1) + 2

\* The bytes of the file.  A file that holds no JSON document is empty or
\* holds, in content, the longer document whose tail a shorter write left.
FileSize(file) ==
  IF ~file.exists \/ (~file.json /\ file.content = <<>>) THEN 0 ELSE JsonBytes(file.content)

\* f.write at offset 0 of a file opened with 'w', flushed when the with
\* block closes it: the bytes replace those at the same offsets, and what
\* another writer put beyond them stays.
Overwrite(file, content) ==
  IF FileSize(file) > JsonBytes(content)
  THEN [exists |-> TRUE, json |-> FALSE, content |-> file.content]
  ELSE JsonFile(content)

\* _load_learned_patterns: {} when there is no file.  json.load raises on a
\* file that holds no JSON document; the engines of the model are constructed
\* on files that hold one.
_load_learned_patterns(file) ==
  IF file.exists THEN json_load(file.content) ELSE <<>>

\* learn_new_patterns(validated_entities): [self, raised, file].  The file is
\* written after the engine's map is updated; when open() fails the
\* exception leaves the call and the file is as it was.
learn_new_patterns(self, validated_entities, file, write_ok) ==
  LET learned == UpdateLearned(self.learned_patterns, NewPatterns(<<>>, validated_entities))
      after == [self EXCEPT !.learned_patterns = learned]
  IN  [self |-> after, raised |-> ~write_ok,
       file |-> IF write_ok THEN JsonFile(json_dump(learned)) ELSE file]

(***************************************************************************)
(* The inputs of the model                                                 *)
(***************************************************************************)
MaxCalls == 2

MaxLearn == 1

MaxRelearn == 3

\* What the recognizer may answer: spans that coincide with, straddle or
\* miss the spans of the static rules, with a low, a middling and a high score
PresidioResults ==
  {[entity_type |-> "PERSON", start |-> sp[1], end |-> sp[2], score |-> sc] :
     sp \in {<<0, 3>>, <<0, 9>>, <<2, 6>>}, sc \in {30, 44, 90}}
    \cup {[entity_type |-> "ES_DNI", start |-> 0, end |-> 3, score |-> sc] : sc \in {30, 44, 90}}

ResultLists ==
  {<<>>} \cup {<<r>> : r \in PresidioResults}
         \cup {<<r1, r2>> : r1 \in {r \in PresidioResults : r.end = 9 /\ r.score # 44},
                            r2 \in {r \in PresidioResults : r.start = 2 /\ r.score # 44}}

Responses ==
  {[fail_es |-> FALSE, fail_en |-> FALSE, results |-> rs] : rs \in ResultLists}
    \cup {[fail_es |-> TRUE, fail_en |-> FALSE, results |-> <<r>>] :
            r \in {r \in PresidioResults : r.entity_type = "PERSON" /\ r.start = 2 /\ r.score # 44}}
    \cup {[fail_es |-> TRUE, fail_en |-> TRUE, results |-> <<>>]}

NoResponse == [fail_es |-> FALSE, fail_en |-> FALSE, results |-> <<>>]

BatchResponses ==
  {NoResponse,
   [fail_es |-> FALSE, fail_en |-> FALSE,
    results |-> <<[entity_type |-> "PERSON", start |-> 2, end |-> 6, score |-> 45]>>]}

MaxBatch == 2

\* A text field holds a str or, in a malformed record, an int
Descriptions == {PyStr(Join(<<W_dni, W_DNI>>)), PyStr(Join(<<W_CARD>>)), PyInt(<<"0">>)}

Notes == {PyStr(Join(<<W_DNI>>)), PyInt(<<"0">>)}

\* The records of the bank extractor: date, description, amount, category
\* and, in some, notes
Transactions ==
  LET base == {[date |-> "2025-01-22", description |-> d, amount |-> m[1], category |-> m[2]] :
                 d \in Descriptions, m \in {<<-5, "food">>, <<20, "rent">>}}
  IN  base \cup {[date |-> b.date, description |-> b.description, amount |-> b.amount,
                  category |-> b.category, notes |-> n] :
                   b \in {t \in base : t.description = PyStr(Join(<<W_CARD>>))}, n \in Notes}

Batches == UNION {[1..n -> Transactions] : n \in 0..MaxBatch}

\* Texts of digits, of uppercase and of lowercase letters, with three
\* characters of a kind and with fewer
LearnTexts ==
  { <<"1","2","3","4","5","6","7","8","Z">>, <<"A","B","C">>, <<"A","B","C","1">>,
    <<"a","b","c">>, <<"A","B">> }

\* No entity, one entity, and two entities of one type
ValidatedEntities ==
  {<<>>} \cup {<<[entity_type |-> t, text |-> x]>> : t \in {"ES_DNI", "CUSTOM"}, x \in LearnTexts}
         \cup {<<[entity_type |-> "CUSTOM", text |-> <<"A","B","C">>],
                 [entity_type |-> "CUSTOM", text |-> x]>> : x \in LearnTexts}

\* The entities given to _get_replacement: every type the model names, on
\* texts with and without separators, with and without the +34 prefix, and
\* too short to show four characters; at two offsets
EntityTypes ==
  {"ES_DNI", "ES_NIE", "ES_CIF", "ES_IBAN", "CREDIT_CARD", "ES_PHONE",
   "MERCHANT_CODE", "TRANSFER_REF", "PERSON"}

Grouped(s, sep) ==
  Slice(s, 0, 4) \o sep \o Slice(s, 4, 8) \o sep \o Slice(s, 8, 12) \o sep \o Slice(s, 12, Len(s))

EntityTexts ==
  {W_DNI, W_CARD, Grouped(W_CARD, <<"-">>), Grouped(W_CARD, <<" ">>),
   W_PHONE, <<"+", "3", "4">> \o W_PHONE, <<"+", "3", "4", " ">> \o W_PHONE,
   W_IBAN, Grouped(Slice(W_IBAN, 0, 12), <<" ">>) \o <<" ">> \o Grouped(Slice(W_IBAN, 12, 24), <<" ">>),
   W_REF, Slice(W_CARD, 0, 3), Slice(W_IBAN, 0, 5)}

Entities ==
  {[entity_type |-> entity_type, text |-> text, start |-> start, end |-> start + Len(text),
    confidence |-> 90, method |-> "static"] :
     entity_type \in EntityTypes, text \in EntityTexts, start \in {0, 7}}

Methods == {"mask", "replace", "hash", "other"}

\* The numbers given to _validate_credit_card: 11 to 20 decimal digits with
\* every last digit, 16 digits in groups, a letter or a superscript among
\* the digits, superscripts only, and the empty string
CardSeed == W_CARD \o <<"1", "9", "4", "8">>

CardNumbers ==
  LET plain == {Slice(CardSeed, 0, n - 1) \o <<DigitChars[d]>> : n \in 11..20, d \in 1..10}
      sixteen == {x \in plain : Len(x) = 16}
  IN  plain \cup {Grouped(x, sep) : x \in sixteen, sep \in {<<"-">>, <<" ">>}}
            \cup {Slice(W_CARD, 0, 15) \o <<c>> : c \in {"a", "^2"}}
            \cup {[i \in 1..12 |-> "^2"], <<>>}

(***************************************************************************)
(* The categorization workflow of agents/categorization_agent.py: three    *)
(* nodes on one state, a merchant cache on file.  The clock counts whole   *)
(* days, as timedelta.days does, and one run sees one value of it.         *)
(***************************************************************************)
\* str.strip()
RECURSIVE lstrip(_)
lstrip(s) == IF s # <<>> /\ Head(s) = " " THEN lstrip(Tail(s)) ELSE s

Reverse(s) == [i \in 1..Len(s) |-> s[Len(s) + 1 - i]]

strip(s) == Reverse(lstrip(Reverse(lstrip(s))))

\* key = name.lower().strip()
MerchantKey(name) == strip(lower(name))

\* MerchantMemory.get_merchant: <<info>>, or <<>> for None
get_merchant(cache, name) ==
  IF MerchantKey(name) \in Keys(cache) THEN <<Get(cache, MerchantKey(name))>> ELSE <<>>

\* MerchantMemory.is_recent(merchant_info, days=30)
is_recent(merchant_info, now) ==
  IF merchant_info = <<>> THEN FALSE
  ELSE (now - merchant_info[1].last_updated) < 30

\* MerchantMemory.remember_merchant, before _save_cache
remember_merchant(cache, name, info, now) ==
  Put(cache, MerchantKey(name),
      [name |-> name, category |-> info.category, confidence |-> info.confidence,
       last_updated |-> now,
       frequency |-> (IF MerchantKey(name) \in Keys(cache)
                      THEN Get(cache, MerchantKey(name)).frequency ELSE 0) + 1])

\* _save_cache: the write goes through, or open() fails and the file stays,
\* or the write fails after open() has emptied the file; the failure is
\* swallowed, and _load_cache reads an emptied file as no cache
_save_cache(file, cache, write) ==
  CASE write = "ok" -> cache
    [] write = "denied" -> file
    [] write = "truncated" -> <<>>

valid_categories ==
  {"Income", "Savings", "Taxes", "Transfers", "Internal Transfer",
   "Donations", "Loan", "ATM", "Groceries", "Food & Dining",
   "Transportation", "Shopping", "Entertainment", "Healthcare",
   "Utilities", "Services", "Education", "Tech & Software",
   "Sports", "Vending", "Housing", "Fees", "Other"}

\* The analysis of research_node after its try/except: the fallback when the
\* LLM call or json.loads raises, "Other" at 0.3 for a category outside the
\* list, the answer as it is otherwise
Analysis(response) ==
  IF response.raises
  THEN [category |-> "Other", has_confidence |-> TRUE, confidence |-> 20]
  ELSE IF response.category \notin valid_categories
  THEN [category |-> "Other", has_confidence |-> TRUE, confidence |-> 30]
  ELSE [category |-> response.category, has_confidence |-> response.has_confidence,
        confidence |-> response.confidence]

\* The routing function of the conditional edge
route_after_memory(method_used) ==
  IF method_used = "memory_cache" THEN "validation" ELSE "research"

\* The rules of validation_node; the confidences of the model are multiples
\* of 0.1, on which the products are exact in hundredths
Validated(category, amount, confidence, merchant_name) ==
  LET c1 == IF category = "Income" /\ amount < 0 THEN (confidence * 7) \div 10 ELSE confidence
      c2 == IF category \in {"Savings", "Taxes", "Loan"} /\ amount > 0
            THEN (c1 * 8) \div 10 ELSE c1
      transfer == find(lower(merchant_name), <<"t","r","a","s","p","a","s","o">>) # -1
                    /\ category # "Internal Transfer"
  IN  [final_category |-> IF transfer THEN "Internal Transfer" ELSE category,
       confidence |-> Min(IF transfer THEN 90 ELSE c2, 95)]

\* The state before the first run
NoRun ==
  [next |-> "idle", run |-> 0, now |-> 0, merchant_name |-> <<>>, amount |-> 0,
   method_used |-> "", final_category |-> "", confidence |-> -1,
   memory_updated |-> FALSE, search_results |-> 0, nodes |-> <<>>]

(***************************************************************************)
(* State                                                                   *)
(***************************************************************************)
VARIABLES
  self,           \* the AdaptiveAnonymizer
  patterns_file,  \* what the learned-patterns file holds
  last,           \* the last operation: its arguments and what it did
  state,          \* the categorization workflow: its channels and the node to run
  cache_file      \* what the merchant cache file holds

vars == <<self, patterns_file, last, state, cache_file>>

\* __init__: when Presidio cannot be set up the engine falls back to the
\* static rules (enable_presidio = False, analyzer = None).
__init__(confidence_threshold, llm_threshold, enable_llm, enable_presidio, setup_ok, file) ==
  [confidence_threshold |-> confidence_threshold,
   llm_threshold |-> llm_threshold,
   enable_llm |-> enable_llm,
   enable_presidio |-> enable_presidio /\ setup_ok,
   analyzer |-> IF enable_presidio /\ setup_ok THEN "AnalyzerEngine" ELSE "None",
   learned_patterns |-> _load_learned_patterns(file),
   processing_stats |-> <<>>,
   uncertain_cases |-> <<>>,
   returned |-> 0]

Init ==
  /\ patterns_file = NoFile
  /\ state = NoRun
  /\ cache_file = <<>>
  /\ \E llm_threshold \in {50, 60}, enable_llm \in BOOLEAN,
        enable_presidio \in BOOLEAN, setup_ok \in BOOLEAN :
       self = __init__(85, llm_threshold, enable_llm, enable_presidio, setup_ok, patterns_file)
  /\ last = [op |-> "__init__"]

\* The keys and the patterns of the learned-patterns map, counted together
LearnedSize(dict) == Len(dict) + SumSeq([i \in 1..Len(dict) |-> Len(dict[i].value)])

\* What an operation appended to the two logs
Added(before, after) ==
  [stats |-> Len(after.processing_stats) - Len(before.processing_stats),
   queue |-> Len(after.uncertain_cases) - Len(before.uncertain_cases)]

\* process(text, use_adaptive)
ProcessWith(responses) ==
  /\ self.returned < MaxCalls
  /\ \E text \in Texts, use_adaptive \in BOOLEAN, response \in responses :
       \E out \in {process(self, text, use_adaptive, response)} :
           /\ self' = out.self
           /\ last' = [op |-> "process", text |-> text, use_adaptive |-> use_adaptive,
                       raised |-> out.raised, entities |-> out.entities,
                       confidence |-> out.confidence, tiers |-> out.tiers,
                       presidio_calls |-> out.presidio_calls, llm_calls |-> out.llm_calls,
                       all_entities |-> out.all_entities, added |-> Added(self, out.self)]
  /\ UNCHANGED <<patterns_file, state, cache_file>>

\* anonymize_text(text, method)
AnonymizeTextWith(responses) ==
  /\ self.returned < MaxCalls
  /\ \E text \in Texts, method \in Methods, response \in responses :
       \E out \in {anonymize_text(self, PyStr(text), method, response)} :
           /\ self' = out.self
           /\ last' = [op |-> "anonymize_text", text |-> text, method |-> method,
                       raised |-> out.raised, value |-> out.value,
                       entities |-> out.entities, added |-> Added(self, out.self)]
  /\ UNCHANGED <<patterns_file, state, cache_file>>

\* learn_new_patterns(validated_entities), while the map is below a size
LearnBelow(size) ==
  /\ LearnedSize(self.learned_patterns) < size
  /\ \E validated_entities \in ValidatedEntities, write_ok \in BOOLEAN :
       \E out \in {learn_new_patterns(self, validated_entities, patterns_file, write_ok)} :
           /\ self' = out.self
           /\ patterns_file' = out.file
           /\ UNCHANGED <<state, cache_file>>
           /\ last' = [op |-> "learn_new_patterns", validated_entities |-> validated_entities,
                       raised |-> out.raised, before |-> self.learned_patterns]

\* anonymize_transactions(transactions), once on a new engine
AnonymizeTransactions ==
  /\ last.op = "__init__"
  /\ \E transactions \in Batches, response \in BatchResponses :
       \E out \in {anonymize_transactions(self, transactions, response)} :
           /\ self' = out.self
           /\ last' = [op |-> "anonymize_transactions", transactions |-> transactions,
                       raised |-> out.raised, value |-> out.value, input |-> out.input]
  /\ UNCHANGED <<patterns_file, state, cache_file>>

Process == ProcessWith(Responses)

Learn == LearnBelow(MaxLearn)

\* The engine in every configuration, under any sequence of process calls
Next == Process

Spec == Init /\ [][Next]_vars

\* The engine with Capa 2 and Capa 3 disabled, where the collaborators are
\* never consulted: process, anonymize_text and learn_new_patterns calls
InitStatic ==
  /\ Init
  /\ ~self.enable_presidio
  /\ ~self.enable_llm

ProcessStatic == ProcessWith({NoResponse})

AnonymizeTextStatic == AnonymizeTextWith({NoResponse})

NextStatic == ProcessStatic \/ AnonymizeTextStatic \/ Learn

SpecStatic == InitStatic /\ [][NextStatic]_vars

\* The learned-pattern store alone: learn calls one after the other, on an
\* engine in any configuration
Relearn == LearnBelow(MaxRelearn)

NextLearn == Relearn

SpecLearn == Init /\ [][NextLearn]_vars

\* Two workers, each with its own engine constructed on the one patterns
\* file, each running one learn call.  In this specification self and last
\* are indexed by the worker; last[w].pc is where the worker's call stands:
\* before it, after the update of its map (lines 641-661), after open() of
\* line 683, or returned.  No step takes a lock: the code has none.
Workers == {1, 2}

InitShared ==
  /\ patterns_file = NoFile
  /\ state = NoRun
  /\ cache_file = <<>>
  /\ \E llm_threshold \in {50, 60}, enable_llm \in BOOLEAN :
       self = [w \in Workers |-> __init__(85, llm_threshold, enable_llm, FALSE, FALSE, patterns_file)]
  /\ last = [w \in Workers |-> [op |-> "__init__", pc |-> "idle"]]

\* Lines 641-661: the worker's own map is updated
WorkerUpdate(w) ==
  /\ last[w].pc = "idle"
  /\ \E validated_entities \in ValidatedEntities :
       /\ self' = [self EXCEPT ![w].learned_patterns =
                     UpdateLearned(@, NewPatterns(<<>>, validated_entities))]
       /\ last' = [last EXCEPT ![w] = [op |-> "learn_new_patterns", pc |-> "updated",
                                       validated_entities |-> validated_entities]]
  /\ UNCHANGED <<patterns_file, state, cache_file>>

\* Line 683: open(self.patterns_file, 'w') truncates the file
WorkerOpen(w) ==
  /\ last[w].pc = "updated"
  /\ patterns_file' = Truncated
  /\ last' = [last EXCEPT ![w].pc = "opened"]
  /\ UNCHANGED <<self, state, cache_file>>

\* Line 684 and the end of the with block: the document is written
WorkerDump(w) ==
  /\ last[w].pc = "opened"
  /\ patterns_file' = Overwrite(patterns_file, json_dump(self[w].learned_patterns))
  /\ last' = [last EXCEPT ![w].pc = "returned"]
  /\ UNCHANGED <<self, state, cache_file>>

NextShared == \E w \in Workers : WorkerUpdate(w) \/ WorkerOpen(w) \/ WorkerDump(w)

SpecShared == InitShared /\ [][NextShared]_vars

\* _validate_credit_card(number): reads and changes nothing of the engine,
\* so one call shows all it does
ValidateCreditCard ==
  /\ last.op = "__init__"
  /\ \E number \in CardNumbers :
       \E out \in {ValidateCard(Strip(number, {" ", "-"}))} :
         last' = [op |-> "_validate_credit_card", number |-> number,
                  raised |-> out.raised, value |-> out.value]
  /\ UNCHANGED <<self, patterns_file, state, cache_file>>

\* The card validator on any number
NextCard == ValidateCreditCard

SpecCard == Init /\ [][NextCard]_vars

\* _get_replacement(entity, method): reads and changes nothing of the engine,
\* so one call shows all it does
GetReplacement ==
  /\ last.op = "__init__"
  /\ \E entity \in Entities, method \in Methods :
       last' = [op |-> "_get_replacement", entity |-> entity, method |-> method,
                value |-> _get_replacement(entity, method)]
  /\ UNCHANGED <<self, patterns_file, state, cache_file>>

\* The replacement function on any entity under any method
NextReplacement == GetReplacement

SpecReplacement == Init /\ [][NextReplacement]_vars

\* One batch on a new engine, in every configuration
NextBatch == AnonymizeTransactions

SpecBatch == Init /\ [][NextBatch]_vars

\* The scorer's inputs: texts where a keyword of the type lies far from the
\* identifier and another one near it, where one identifier occurs twice,
\* and identifiers with a right and with a wrong checksum
W_nif == <<"n","i","f">>

W_DNI_WRONG == <<"1","2","3","4","5","6","7","8","A">>

W_IBAN_WRONG == <<"E","S","0","0","2","1","0","0","0","4","1","8","4","5","0","2","0","0","0","5","1","3","3","2">>

W_CARD_VALID == <<"4","5","3","2","0","1","5","1","1","2","8","3","0","3","6","6">>

W_GAP == [i \in 1..60 |-> "."]

ScoreTexts ==
  {Join(ws) : ws \in {<<W_dni, W_DNI>>, <<W_dni, W_DNI_WRONG>>,
                      <<W_dni, W_GAP, W_nif, W_DNI>>,
                      <<W_dni, W_DNI, W_GAP, W_DNI>>,
                      <<W_DNI, W_GAP, W_dni>>,
                      <<W_iban, W_IBAN>>, <<W_iban, W_IBAN_WRONG>>,
                      <<W_CARD>>, <<W_CARD_VALID>>}}

ScoreMatches == {W_DNI, W_DNI_WRONG, W_IBAN, W_IBAN_WRONG, W_CARD, W_CARD_VALID}

\* _calculate_confidence(text, entity_type, match): reads the catalog only,
\* so one call shows all it does
CalculateConfidence ==
  /\ last.op = "__init__"
  /\ \E text \in ScoreTexts, entity_type \in EntityTypes, match \in ScoreMatches :
       last' = [op |-> "_calculate_confidence", text |-> text,
                entity_type |-> entity_type, match |-> match,
                value |-> _calculate_confidence(text, entity_type, match)]
  /\ UNCHANGED <<self, patterns_file, state, cache_file>>

\* analyze_with_static_rules(text): reads the catalog only
AnalyzeWithStaticRules ==
  /\ last.op = "__init__"
  /\ \E text \in ScoreTexts :
       \E out \in {analyze_with_static_rules(text)} :
         last' = [op |-> "analyze_with_static_rules", text |-> text,
                  entities |-> out.entities, confidence |-> out.confidence]
  /\ UNCHANGED <<self, patterns_file, state, cache_file>>

\* Capa 1 and its scorer on any text
NextScore == CalculateConfidence \/ AnalyzeWithStaticRules

SpecScore == Init /\ [][NextScore]_vars

\* The resolver's inputs: lists of candidates on four spans, three of them a
\* chain where the first and the last do not touch, with three confidences
MaxCandidates == 3

CandidateSpans == {<<0, 2>>, <<1, 3>>, <<2, 4>>, <<0, 4>>}

Candidates ==
  {[entity_type |-> "ES_DNI", start |-> span[1], end |-> span[2], confidence |-> confidence] :
     span \in CandidateSpans, confidence \in {50, 60, 70}}

CandidateLists == UNION {[1..n -> Candidates] : n \in 0..MaxCandidates}

\* _remove_overlaps(entities): reads and changes nothing of the engine, so
\* one call shows all it does; sorted and steps are the list after the sort
\* and the accepted list after each turn of the loop
RemoveOverlaps ==
  /\ last.op = "__init__"
  /\ \E entities \in CandidateLists :
       last' = [op |-> "_remove_overlaps", entities |-> entities,
                sorted |-> SortByStart(entities),
                steps |-> OverlapTrace(<<>>, SortByStart(entities)),
                value |-> _remove_overlaps(entities)]
  /\ UNCHANGED <<self, patterns_file, state, cache_file>>

\* The overlap resolver on any list of candidates
NextOverlap == RemoveOverlaps

SpecOverlap == InitStatic /\ [][NextOverlap]_vars

\* The inputs of the workflow: merchants (two of one key), amounts, days
\* around the 30-day window, and what the LLM may answer: an error, an
\* answer with a confidence above or below the 0.6 of the cache, an answer
\* without a confidence, a category outside the list
MaxRuns == 2

MerchantNames ==
  {<<"L","i","d","l">>, <<" ","l","i","d","l">>, <<"T","r","a","s","p","a","s","o">>}

Amounts == {-5, 20}

Days == {0, 29, 30}

LlmResponses ==
  {[raises |-> TRUE, category |-> "", has_confidence |-> FALSE, confidence |-> 0],
   [raises |-> FALSE, category |-> "Groceries", has_confidence |-> TRUE, confidence |-> 90],
   [raises |-> FALSE, category |-> "Income", has_confidence |-> TRUE, confidence |-> 70],
   [raises |-> FALSE, category |-> "Savings", has_confidence |-> TRUE, confidence |-> 50],
   [raises |-> FALSE, category |-> "Groceries", has_confidence |-> FALSE, confidence |-> 0],
   [raises |-> FALSE, category |-> "Supermarket", has_confidence |-> FALSE, confidence |-> 0]}

Writes == {"ok", "denied", "truncated"}

\* A cache file as remember_merchant leaves it, or none
InitialCaches ==
  {<<>>,
   remember_merchant(<<>>, <<"L","i","d","l">>,
                     [category |-> "Groceries", confidence |-> 90], 0)}

InitGraph ==
  /\ patterns_file = NoFile
  /\ self = __init__(85, 50, FALSE, FALSE, FALSE, patterns_file)
  /\ last = [op |-> "__init__"]
  /\ state = NoRun
  /\ cache_file \in InitialCaches

\* categorize_transaction on a transaction of category "Other": the initial
\* state, graph.ainvoke and the edge START -> check_memory
ainvoke ==
  /\ state.next \in {"idle", "END", "raised"}
  /\ state.run < MaxRuns
  /\ \E merchant_name \in MerchantNames, amount \in Amounts, now \in Days :
       /\ now >= state.now
       /\ state' = [NoRun EXCEPT !.next = "check_memory", !.run = state.run + 1,
                                 !.now = now, !.merchant_name = merchant_name,
                                 !.amount = amount]
  /\ UNCHANGED <<self, patterns_file, last, cache_file>>

\* check_memory_node and the conditional edge after it
check_memory_node ==
  /\ state.next = "check_memory"
  /\ \E merchant_info \in {get_merchant(cache_file, state.merchant_name)} :
       state' = IF is_recent(merchant_info, state.now)
                THEN [state EXCEPT !.method_used = "memory_cache",
                                   !.confidence = merchant_info[1].confidence,
                                   !.final_category = merchant_info[1].category,
                                   !.memory_updated = FALSE,
                                   !.next = route_after_memory("memory_cache"),
                                   !.nodes = Append(state.nodes, "check_memory")]
                ELSE [state EXCEPT !.method_used = "needs_research",
                                   !.next = route_after_memory("needs_research"),
                                   !.nodes = Append(state.nodes, "check_memory")]
  /\ UNCHANGED <<self, patterns_file, last, cache_file>>

\* research_node and the edge research -> validation.  analysis["confidence"]
\* of line 243 is read outside the try: an answer of a valid category without
\* a confidence raises KeyError, which ends the run
research_node ==
  /\ state.next = "research"
  /\ \E search_results \in {0, 3}, response \in LlmResponses, write \in Writes :
       \E analysis \in {Analysis(response)} :
         IF ~analysis.has_confidence
         THEN /\ state' = [state EXCEPT !.next = "raised",
                                        !.nodes = Append(state.nodes, "research")]
              /\ UNCHANGED cache_file
         ELSE /\ cache_file' =
                   IF analysis.confidence > 60
                   THEN _save_cache(cache_file,
                                    remember_merchant(cache_file, state.merchant_name,
                                                      analysis, state.now), write)
                   ELSE cache_file
              /\ state' = [state EXCEPT !.search_results = search_results,
                                        !.confidence = analysis.confidence,
                                        !.method_used = "web_research_llm",
                                        !.final_category = analysis.category,
                                        !.memory_updated = analysis.confidence > 60,
                                        !.next = "validation",
                                        !.nodes = Append(state.nodes, "research")]
  /\ UNCHANGED <<self, patterns_file, last>>

\* validation_node and the edge validation -> END
validation_node ==
  /\ state.next = "validation"
  /\ \E out \in {Validated(IF state.final_category = "" THEN "Other" ELSE state.final_category,
                           state.amount,
                           IF state.confidence = -1 THEN 50 ELSE state.confidence,
                           state.merchant_name)} :
       state' = [state EXCEPT !.final_category = out.final_category,
                              !.confidence = out.confidence,
                              !.next = "END",
                              !.nodes = Append(state.nodes, "validation")]
  /\ UNCHANGED <<self, patterns_file, last, cache_file>>

\* Runs of the workflow, one after the other
NextGraph == ainvoke \/ check_memory_node \/ research_node \/ validation_node

SpecGraph == InitGraph /\ [][NextGraph]_vars

\* ainvoke drives the graph until no node is left to run: a node that is
\* due does run
SpecGraphFair ==
  SpecGraph /\ WF_vars(check_memory_node) /\ WF_vars(research_node) /\ WF_vars(validation_node)
(***************************************************************************)
(* Properties                                                              *)
(***************************************************************************)
\* What Capa 1 alone answers for the text of the last process call
Tier1Of(call) == Capa1[call.text]

Disjoint(a, b) == a.end <= b.start \/ b.end <= a.start

ProcessReturned == last.op = "process" /\ ~last.raised

\* C1: the entities a process call returns have pairwise disjoint half-open
\* intervals [start, end), in every configuration, for every text and every
\* non-empty span the Capa 2 recognizer answers.
C1_NoOverlap ==
  ProcessReturned =>
    \A i, j \in 1..Len(last.entities) :
      i # j => Disjoint(last.entities[i], last.entities[j])

\* C1 happens: Capa 2 answered a span that intersects an entity of Capa 1 and
\* took its place, and the call returned two entities.
C1_Witness ==
  /\ ProcessReturned
  /\ last.presidio_calls # <<>>
  /\ Len(last.entities) >= 2
  /\ \E i \in 1..Len(last.entities), k \in 1..Len(Tier1Of(last).entities) :
       /\ last.entities[i].method = "presidio"
       /\ ~Disjoint(last.entities[i], Tier1Of(last).entities[k])

\* C2: a process call whose Capa 1 confidence is at least confidence_threshold
\* invokes neither the Capa 2 recognizer nor the Capa 3 adjudicator, and
\* returns exactly the entities and the confidence of Capa 1.
C2_EarlyExit ==
  last.op = "process" /\ AtLeast(Tier1Of(last).confidence, self.confidence_threshold) =>
    /\ last.presidio_calls = <<>>
    /\ last.llm_calls = <<>>
    /\ ~last.raised
    /\ last.entities = Tier1Of(last).entities
    /\ last.confidence = Tier1Of(last).confidence

\* C2 happens: an adaptive call on an engine with Capa 2 set up left at the
\* gate of line 574.
C2_Witness ==
  /\ last.op = "process"
  /\ last.use_adaptive
  /\ self.enable_presidio /\ self.analyzer # "None"
  /\ Tier1Of(last).entities # <<>>
  /\ AtLeast(Tier1Of(last).confidence, self.confidence_threshold)
  /\ last.tiers = <<"STATIC_ONLY", "FINALIZED">>

\* C3: the Capa 3 adjudicator is invoked only when enable_llm is set and the
\* confidence after the earlier tiers is below llm_threshold, and every entity
\* it is given has a confidence strictly below llm_threshold.
C3_OnlyUncertain ==
  last.op = "process" =>
    \A c \in 1..Len(last.llm_calls) :
      /\ self.enable_llm
      /\ Below(last.llm_calls[c].combined_conf, self.llm_threshold)
      /\ \A i \in 1..Len(last.llm_calls[c].entities) :
           last.llm_calls[c].entities[i].confidence < self.llm_threshold

\* C3 happens: the adjudicator was invoked while an entity at or above
\* llm_threshold was withheld from it and returned as it was.
C3_Witness ==
  /\ ProcessReturned
  /\ last.llm_calls # <<>>
  /\ \E i \in 1..Len(last.entities) :
       /\ last.entities[i].method # "llm_validated"
       /\ last.entities[i].confidence >= self.llm_threshold
  /\ \E i \in 1..Len(last.entities) : last.entities[i].method = "llm_validated"

\* C4: on an engine with Capa 2 disabled and Capa 3 enabled, an adaptive
\* process call whose Capa 1 confidence is below llm_threshold, with an entity
\* below llm_threshold, goes STATIC_ONLY, LLM_ADJUDICATION, FINALIZED: the
\* adjudicator is invoked on the uncertain entities.
C4_Tier3WithoutTier2 ==
  /\ last.op = "process" /\ last.use_adaptive
  /\ ~self.enable_presidio /\ self.enable_llm
  /\ Below(Tier1Of(last).confidence, self.llm_threshold)
  /\ \E i \in 1..Len(Tier1Of(last).entities) :
       Tier1Of(last).entities[i].confidence < self.llm_threshold
  => /\ last.tiers = <<"STATIC_ONLY", "LLM_ADJUDICATION", "FINALIZED">>
     /\ last.llm_calls # <<>>

\* The text fields of a record that hold no str
BadFields(tx) == {f \in DOMAIN tx \cap {"concept", "description", "notes"} : tx[f].type # "str"}

AllStr(transactions) == \A k \in 1..Len(transactions) : BadFields(transactions[k]) = {}

C6_BadRecordTolerated ==
  last.op = "anonymize_transactions" /\ ~AllStr(last.transactions) =>
    /\ ~last.raised
    /\ Len(last.value) >= Cardinality({k \in 1..Len(last.transactions) :
                                        BadFields(last.transactions[k]) = {}})

\* C7: with Capa 2 and Capa 3 disabled, what process returns depends on the
\* text alone: it is what Capa 1 answers for the text, whatever process,
\* anonymize_text and learn_new_patterns calls came before.
C7_StaticDeterminism ==
  last.op = "process" =>
    /\ ~last.raised
    /\ last.entities = Tier1Of(last).entities
    /\ last.confidence = Tier1Of(last).confidence

\* C7 happens: a process call that found entities of a type for which
\* patterns were learned before, after another call of process
C7_Witness ==
  /\ last.op = "process"
  /\ self.returned >= 2
  /\ \E i \in 1..Len(last.entities), k \in 1..Len(self.learned_patterns) :
       self.learned_patterns[k].key = last.entities[i].entity_type

InUnit(confidence) == 0 <= confidence /\ confidence <= 100

\* C8: every entity confidence of the pipeline lies in [0, 1]: those of
\* Capa 1, those a process call returns (Capa 3 confirmations included), those
\* given to the adjudicator and those kept in the uncertain-cases queue.
C8_ConfidenceInUnit ==
  last.op = "process" =>
    /\ \A i \in 1..Len(Tier1Of(last).entities) : InUnit(Tier1Of(last).entities[i].confidence)
    /\ \A i \in 1..Len(last.entities) : InUnit(last.entities[i].confidence)
    /\ \A c \in 1..Len(last.llm_calls) : \A i \in 1..Len(last.llm_calls[c].entities) :
         InUnit(last.llm_calls[c].entities[i].confidence)
    /\ \A q \in 1..Len(self.uncertain_cases) : \A i \in 1..Len(self.uncertain_cases[q].entities) :
         InUnit(self.uncertain_cases[q].entities[i].confidence)

\* C8 happens: an entity whose base confidence and context bonus add up to
\* more than 1 was returned with the confidence 1.
C8_Witness ==
  /\ ProcessReturned
  /\ \E i \in 1..Len(last.entities) :
       /\ last.entities[i].method = "static"
       /\ last.entities[i].confidence = 100
       /\ PatternOf(last.entities[i].entity_type).confidence
            + context_bonus(last.text, last.entities[i].entity_type, last.entities[i].text) > 100

\* C9: the processing-stats log holds one record for every process call that
\* completed, whichever state finalized it.
C9_OneRecordPerCall == Len(self.processing_stats) = self.returned

\* C10: a process call adds an entry to the uncertain-cases queue exactly when
\* the confidence it returns is below llm_threshold, in every configuration.
C10_QueuedIffUncertain ==
  ProcessReturned => (last.added.queue = 1 <=> Below(last.confidence, self.llm_threshold))

\* C11: an entry of the uncertain-cases queue holds no character of the
\* source text beyond its first 100: the stored text is at most 100 long and
\* no stored entity reaches past offset 100.
C11_OnlyPrefixQueued ==
  \A c \in 1..Len(self.uncertain_cases) :
    /\ Len(self.uncertain_cases[c].text) <= 100
    /\ \A i \in 1..Len(self.uncertain_cases[c].entities) :
         self.uncertain_cases[c].entities[i].end <= 100

\* The source text with the span of each entity replaced, built left to right
\* from the entities in ascending order of start
RECURSIVE Rebuilt(_, _, _, _)
Rebuilt(text, entities, from, method) ==
  IF entities = <<>> THEN Slice(text, from, Len(text))
  ELSE Slice(text, from, Head(entities).start)
         \o _get_replacement(Head(entities), method)
         \o Rebuilt(text, Tail(entities), Head(entities).end, method)

AnonymizeTextReturned == last.op = "anonymize_text" /\ ~last.raised

\* C12: what anonymize_text returns is the source text with the span of every
\* entity of process replaced by that entity's replacement and every other
\* character kept in place; a text without entities comes back unchanged.
C12_SpansReplaced ==
  AnonymizeTextReturned =>
    /\ last.value.value = Rebuilt(last.text, SortByStart(last.entities), 0, last.method)
    /\ last.entities = <<>> => last.value.value = last.text

\* C12 happens: two entities were replaced by texts of another length than
\* their spans.
C12_Witness ==
  /\ AnonymizeTextReturned
  /\ Len(last.entities) >= 2
  /\ \A i \in 1..Len(last.entities) :
       Len(_get_replacement(last.entities[i], last.method))
         # last.entities[i].end - last.entities[i].start
  /\ last.value.value # last.text

Stars(n) == [i \in 1..n |-> "*"]

\* The characters of a text that are no whitespace
NonSpace(text) == Strip(text, {" "})

\* The characters of a text that are neither whitespace nor dashes
NoSeparators(text) == Strip(text, {" ", "-"})

Masked == last.op = "_get_replacement" /\ last.method = "mask"

C14_Tier2FailureNotFatal ==
  last.op = "process" /\ last.presidio_calls = <<"es", "en">> => ~last.raised

\* C15: a learn call whose write of the patterns file fails returns normally:
\* no exception reaches the caller.
C15_WriteFailureRecovered ==
  last.op = "learn_new_patterns" => ~last.raised

LearnReturned == last.op = "learn_new_patterns" /\ ~last.raised

\* a is a prefix of b
IsPrefix(a, b) == Len(a) <= Len(b) /\ SubSeq(b, 1, Len(a)) = a

\* C17: after a learn call that returns, the patterns file holds the engine's
\* map, so an engine constructed on the file starts with the same map; and
\* the types and templates held before the call are still there, in order,
\* before whatever the call added.
C17_SaveLoadRoundTrip ==
  LearnReturned =>
    /\ patterns_file.exists /\ patterns_file.json
    /\ __init__(85, 60, TRUE, FALSE, TRUE, patterns_file).learned_patterns = self.learned_patterns
    /\ IsPrefix([i \in 1..Len(last.before) |-> last.before[i].key],
                [i \in 1..Len(self.learned_patterns) |-> self.learned_patterns[i].key])
    /\ \A i \in 1..Len(last.before) :
         IsPrefix(last.before[i].value, self.learned_patterns[i].value)

\* C17 happens: a learn call on a map that held a template added one that
\* has a backslash in it, and returned.
C17_Witness ==
  /\ LearnReturned
  /\ \E i \in 1..Len(last.before) :
       /\ last.before[i].value # <<>>
       /\ Len(self.learned_patterns[i].value) > Len(last.before[i].value)
       /\ "\\" \in Range(self.learned_patterns[i].value[Len(self.learned_patterns[i].value)])

\* The digit and letter-class tokens of the template of a text: one for each
\* digit, uppercase letter and lowercase letter
Tokens(text) ==
  Cardinality({i \in 1..Len(text) : isdigit(text[i]) \/ isupper(text[i]) \/ islower(text[i])})

\* The templates a map holds under a type
TemplatesOf(dict, type) == IF type \in Keys(dict) THEN Get(dict, type) ELSE <<>>

\* C18: a learn call appends under a type one template for each validated
\* entity of that type whose template has at least 3 digit or letter-class
\* tokens, and none for the others.
C18_StoredIffThreeTokens ==
  last.op = "learn_new_patterns" =>
    \A i \in 1..Len(last.validated_entities) :
      LET type == last.validated_entities[i].entity_type
      IN  Len(TemplatesOf(self.learned_patterns, type)) - Len(TemplatesOf(last.before, type))
            = Cardinality({j \in 1..Len(last.validated_entities) :
                             /\ last.validated_entities[j].entity_type = type
                             /\ Tokens(last.validated_entities[j].text) >= 3})

\* The templates of a worker's map are in the document of the file
HoldsMapOf(w) ==
  \A i \in 1..Len(self[w].learned_patterns) :
    LET key == self[w].learned_patterns[i].key
        held == json_load(patterns_file.content)
    IN  /\ key \in Keys(held)
        /\ Range(self[w].learned_patterns[i].value) \subseteq Range(Get(held, key))

\* C16: the writes of two workers on one patterns file are serialized: no
\* worker has the file open for writing while another has, and when both
\* learn calls have returned the file is a JSON document that holds the
\* templates of both.
C16_WritesSerialized ==
  /\ \A v \in Workers, w \in Workers :
       v # w => ~(last[v].pc = "opened" /\ last[w].pc = "opened")
  /\ (\A w \in Workers : last[w].pc = "returned") =>
       /\ patterns_file.json
       /\ \A w \in Workers : HoldsMapOf(w)

\* The Luhn sum of a string of decimal digits: the digits counted from the
\* right, the check digit first; every second one is doubled and reduced by
\* 9 when above 9
LuhnTerm(digits, k) ==
  LET d == IndexOf(DigitChars, digits[Len(digits) - k + 1]) - 1
  IN  IF k % 2 = 0 THEN (IF 2 * d > 9 THEN 2 * d - 9 ELSE 2 * d) ELSE d

LuhnSum(digits) == SumSeq([k \in 1..Len(digits) |-> LuhnTerm(digits, k)])

\* 12 to 19 decimal digits
IsCardDigits(digits) ==
  /\ Len(digits) >= 12 /\ Len(digits) <= 19
  /\ \A i \in 1..Len(digits) : digits[i] \in Range(DigitChars)

WithLastDigit(digits, d) == SubSeq(digits, 1, Len(digits) - 1) \o <<d>>

\* C19: on a string that is 12 to 19 digits once spaces and dashes are
\* stripped the card validator returns true iff the Luhn sum is 0 mod 10, so
\* any other last digit makes an accepted number rejected; every other
\* string is rejected: the validator returns false.
C19_LuhnValidator ==
  last.op = "_validate_credit_card" =>
    LET digits == NoSeparators(last.number)
    IN  /\ ~last.raised
        /\ IsCardDigits(digits) =>
             /\ last.value <=> LuhnSum(digits) % 10 = 0
             /\ last.value =>
                  \A d \in Range(DigitChars) \ {digits[Len(digits)]} :
                    ~_validate_credit_card(WithLastDigit(digits, d))
        /\ ~IsCardDigits(digits) => ~last.value

RECURSIVE ConfidenceSum(_)
ConfidenceSum(entities) ==
  IF entities = <<>> THEN 0
  ELSE entities[Len(entities)].confidence + ConfidenceSum(SubSeq(entities, 1, Len(entities) - 1))

\* confidence is the arithmetic mean of the confidences of the entities, and
\* 0 over none
IsMeanOf(confidence, entities) ==
  /\ confidence.n = Len(entities)
  /\ confidence.sum = ConfidenceSum(entities)
  /\ entities = <<>> => confidence.sum = 0

\* C20: the confidence process returns is the mean of the confidences of the
\* entities it returns, 0 when it returns none, also after Capa 3 confirmed
\* or dropped entities; and so are the confidences Capa 1 and Capa 2 return
\* for the text of the call.
C20_ConfidenceIsMean ==
  ProcessReturned =>
    /\ IsMeanOf(last.confidence, last.entities)
    /\ IsMeanOf(Tier1Of(last).confidence, Tier1Of(last).entities)
    /\ \A response \in Responses :
         \A out \in {analyze_with_presidio(last.text, response)} :
           IsMeanOf(out.confidence, out.entities)

\* C20 happens: Capa 3 confirmed an entity and dropped another, and the
\* confidence returned is another than the one it was called at.
C20_Witness ==
  /\ ProcessReturned
  /\ last.llm_calls # <<>>
  /\ last.entities # <<>>
  /\ Len(last.entities) < Len(last.llm_calls[1].entities)
  /\ \E i \in 1..Len(last.entities) : last.entities[i].method = "llm_validated"
  /\ last.confidence # last.llm_calls[1].combined_conf

SameSpan(a, b) == a.start = b.start /\ a.end = b.end

\* No span of the earlier list is in the later list with a lower confidence
NeverLower(earlier, later) ==
  \A i \in 1..Len(earlier) : \A j \in 1..Len(later) :
    SameSpan(earlier[i], later[j]) => later[j].confidence >= earlier[i].confidence

\* The entity lists of a call after each tier it went through
Stages(call) ==
  <<Tier1Of(call).entities>>
    \o (IF "STATISTICAL_MERGE" \in Range(call.tiers) THEN <<call.all_entities>> ELSE <<>>)
    \o (IF "LLM_ADJUDICATION" \in Range(call.tiers) THEN <<call.entities>> ELSE <<>>)

\* C21: across the tiers of one process call the confidence of a span never
\* decreases: a span that is in the list after one tier and in the list
\* after the next has there a confidence that is at least the earlier one.
C21_ConfidenceNeverDecreases ==
  ProcessReturned =>
    \A n \in 1..(Len(Stages(last)) - 1) :
      NeverLower(Stages(last)[n], Stages(last)[n + 1])

\* C21 happens: a call went through the three tiers, a span of Capa 1 met a
\* Capa 2 candidate of the same span, and Capa 3 raised a span of the merge.
C21_Witness ==
  /\ ProcessReturned
  /\ Len(Stages(last)) = 3
  /\ \E i \in 1..Len(Stages(last)[1]) : \E j \in 1..Len(Stages(last)[2]) :
       /\ SameSpan(Stages(last)[1][i], Stages(last)[2][j])
  /\ \E i \in 1..Len(Stages(last)[2]) : \E j \in 1..Len(Stages(last)[3]) :
       /\ SameSpan(Stages(last)[2][i], Stages(last)[3][j])
       /\ Stages(last)[3][j].confidence > Stages(last)[2][i].confidence

\* The context bonus when the first keyword of the type that lies less than
\* 50 characters from the match decides it
QualifyingBonus(text, entity_type, match) ==
  LET words == PatternOf(entity_type).context
      text_lower == lower(text)
      Distance(i) == abs(find(text_lower, words[i]) - find(text_lower, lower(match)))
      qualifying == {i \in 1..Len(words) :
                       find(text_lower, words[i]) # -1 /\ Distance(i) < 50}
  IN  IF qualifying = {} THEN 0
      ELSE IF Distance(CHOOSE i \in qualifying : \A j \in qualifying : i <= j) < 20
      THEN 20 ELSE 10

\* C22: the context bonus of a match is decided by the first keyword of its
\* type that occurs less than 50 characters from it (+0.2 below 20
\* characters, +0.1 otherwise); a keyword that occurs 50 or more characters
\* away does not stop the later keywords of the type
C22_FirstQualifyingKeyword ==
  last.op = "_calculate_confidence" =>
    last.value = Min(100, PatternOf(last.entity_type).confidence
                            + QualifyingBonus(last.text, last.entity_type, last.match)
                            + validation_bonus(last.entity_type, last.match))

\* The context bonus when the distance is taken from the entity's own start
OffsetBonus(text, entity) ==
  LET words == PatternOf(entity.entity_type).context
      text_lower == lower(text)
      present == {i \in 1..Len(words) : find(text_lower, words[i]) # -1}
  IN  IF present = {} THEN 0
      ELSE LET word == words[CHOOSE i \in present : \A j \in present : i <= j]
               distance == abs(find(text_lower, word) - entity.start)
           IN  IF distance < 20 THEN 20
               ELSE IF distance < 50 THEN 10
               ELSE 0

\* C23: every entity of Capa 1 is scored with the distance between the
\* keyword and the entity's own offsets, so that the same identifier matched
\* near a keyword and far from it gets two different bonuses
C23_DistanceFromOwnOffsets ==
  last.op = "analyze_with_static_rules" =>
    \A i \in 1..Len(last.entities) :
      LET entity == last.entities[i]
      IN  entity.confidence =
            Min(100, PatternOf(entity.entity_type).confidence
                       + OffsetBonus(last.text, entity)
                       + validation_bonus(entity.entity_type, entity.text))

\* C24: a card that fails its validator is still an entity of Tier 1, with
\* 0.3 subtracted from its score, and under the default llm_threshold of 0.50
\* its confidence lies below the threshold, which makes it uncertain
C24_FailedValidatorUncertain ==
  ProcessReturned =>
    \A i \in 1..Len(Tier1Of(last).entities) :
      LET entity == Tier1Of(last).entities[i]
      IN  (entity.entity_type = "CREDIT_CARD" /\ ~_validate_credit_card(entity.text)) =>
            /\ entity.confidence =
                 Min(100, PatternOf("CREDIT_CARD").confidence
                            + context_bonus(last.text, "CREDIT_CARD", entity.text) - 30)
            /\ self.llm_threshold = 50 => entity.confidence < self.llm_threshold

\* The checksum of the three types that have one
Checksum(entity_type, match) ==
  CASE entity_type = "CREDIT_CARD" -> _validate_credit_card(match)
    [] entity_type = "ES_DNI" -> _validate_spanish_dni(match)
    [] entity_type = "ES_IBAN" -> _validate_iban(match)

\* C25: the scorer applies the checksum of every type that has one (Luhn,
\* DNI check letter, IBAN mod-97): +0.15 when it passes and -0.3 when it fails
C25_EveryValidatorApplied ==
  (last.op = "_calculate_confidence"
     /\ last.entity_type \in {"CREDIT_CARD", "ES_DNI", "ES_IBAN"}) =>
    last.value = Min(100, PatternOf(last.entity_type).confidence
                            + context_bonus(last.text, last.entity_type, last.match)
                            + (IF Checksum(last.entity_type, last.match) THEN 15 ELSE -30))

\* The candidates connected to those of a set through a chain of overlaps
RECURSIVE Reach(_, _)
Reach(entities, set) ==
  LET next == set \cup {j \in 1..Len(entities) :
                          \E i \in set : Overlap(entities[i], entities[j])}
  IN  IF next = set THEN set ELSE Reach(entities, next)

Cluster(entities, i) == Reach(entities, {i})

\* C26: of every cluster of candidates connected through overlaps the
\* resolver keeps exactly one entity, the one of the highest confidence
C26_OnePerCluster ==
  last.op = "_remove_overlaps" =>
    \A i \in 1..Len(last.entities) :
      LET cluster == {last.entities[j] : j \in Cluster(last.entities, i)}
          kept == {k \in 1..Len(last.value) : last.value[k] \in cluster}
      IN  /\ Cardinality(kept) = 1
          /\ \A k \in kept : \A c \in cluster : last.value[k].confidence >= c.confidence

\* The accepted list before turn k of the resolver's loop
Accepted(call, k) == IF k = 1 THEN <<>> ELSE call.steps[k - 1]

\* C27: a candidate that overlaps an accepted entity of exactly its own
\* confidence is discarded and the accepted list stays as it is; an accepted
\* entity leaves the list only for an overlapping candidate of strictly
\* higher confidence
C27_TieKeepsAccepted ==
  last.op = "_remove_overlaps" =>
    \A k \in 1..Len(last.sorted) :
      LET before == Accepted(last, k)
          after == last.steps[k]
          entity == last.sorted[k]
      IN  /\ (\E i \in 1..Len(before) :
                Overlap(entity, before[i]) /\ before[i].confidence = entity.confidence)
               => after = before
          /\ \A i \in 1..Len(before) :
               before[i] \notin Range(after) =>
                 Overlap(entity, before[i]) /\ entity.confidence > before[i].confidence
          /\ last.value = last.steps[Len(last.sorted)]

C27_Witness ==
  /\ last.op = "_remove_overlaps"
  /\ \E k \in 2..Len(last.sorted) :
       \E i \in 1..Len(Accepted(last, k)) :
         /\ Overlap(last.sorted[k], Accepted(last, k)[i])
         /\ Accepted(last, k)[i].confidence = last.sorted[k].confidence
         /\ Accepted(last, k)[i] # last.sorted[k]
         /\ last.sorted[k] \notin Range(last.value)
  /\ \E k \in 2..Len(last.sorted) :
       \E i \in 1..Len(Accepted(last, k)) : Accepted(last, k)[i] \notin Range(last.steps[k])

\* C28: every candidate the resolver removes overlaps an entity of the
\* resolved list whose confidence is at least its own
C28_RemovedIsCovered ==
  last.op = "_remove_overlaps" =>
    \A i \in 1..Len(last.entities) :
      last.entities[i] \notin Range(last.value) =>
        \E k \in 1..Len(last.value) :
          /\ Overlap(last.entities[i], last.value[k])
          /\ last.value[k].confidence >= last.entities[i].confidence

\* An uncertain entity as Tier 3 confirms it
Confirmed(entity) ==
  [entity EXCEPT !.confidence = Min(100, entity.confidence + 30), !.method = "llm_validated"]

Tier3Ran == ProcessReturned /\ "LLM_ADJUDICATION" \in Range(last.tiers)

\* C29: after Tier 3 has run, an entity that was below llm_threshold is
\* either absent from the final list or present with min(1.0, confidence +
\* 0.3) and method llm_validated; an entity that was at or above the
\* threshold is present unchanged; the final list holds nothing else
C29_Tier3Frame ==
  Tier3Ran =>
    /\ \A i \in 1..Len(last.all_entities) :
         LET entity == last.all_entities[i]
         IN  IF entity.confidence < self.llm_threshold
             THEN \A j \in 1..Len(last.entities) :
                    SameSpan(entity, last.entities[j]) => last.entities[j] = Confirmed(entity)
             ELSE entity \in Range(last.entities)
    /\ \A j \in 1..Len(last.entities) :
         \E i \in 1..Len(last.all_entities) :
           \/ last.entities[j] = last.all_entities[i]
                /\ last.all_entities[i].confidence >= self.llm_threshold
           \/ last.entities[j] = Confirmed(last.all_entities[i])
                /\ last.all_entities[i].confidence < self.llm_threshold

\* Tier 3 confirmed an uncertain entity and let a certain one pass
C29_Witness ==
  /\ Tier3Ran
  /\ \E i \in 1..Len(last.all_entities) :
       /\ last.all_entities[i].confidence < self.llm_threshold
       /\ Confirmed(last.all_entities[i]) \in Range(last.entities)
  /\ \E i \in 1..Len(last.all_entities) :
       /\ last.all_entities[i].confidence >= self.llm_threshold
       /\ last.all_entities[i] \in Range(last.entities)

\* The merchant of the run has a cache entry less than 30 days old
Fresh ==
  \E i \in 1..Len(cache_file) :
    /\ cache_file[i].key = MerchantKey(state.merchant_name)
    /\ state.now - cache_file[i].value.last_updated < 30

Times(node) == Cardinality({i \in 1..Len(state.nodes) : state.nodes[i] = node})

\* C30: every run of the workflow goes check_memory -> [research ->]
\* validation -> END and ends there: check_memory hands over to validation
\* exactly when the merchant has a cache entry less than 30 days old (whose
\* category it takes) and to research in every other case, validation runs
\* once, after research when research runs, and every run that has started
\* reaches END
C30_WorkflowRunsToEnd ==
  /\ [][state.next = "check_memory" =>
          /\ state'.nodes = <<"check_memory">>
          /\ state'.next = (IF Fresh THEN "validation" ELSE "research")
          /\ Fresh => \E i \in 1..Len(cache_file) :
                        /\ cache_file[i].key = MerchantKey(state.merchant_name)
                        /\ state'.final_category = cache_file[i].value.category]_vars
  /\ [](state.next = "END" =>
          /\ state.nodes \in {<<"check_memory", "validation">>,
                              <<"check_memory", "research", "validation">>}
          /\ Times("validation") = 1)
  /\ [](Times("validation") <= 1)
  /\ (state.next = "check_memory") ~> (state.next = "END")

=========================================================================
